---- MODULE Spec2Model ----
(***************************************************************************)
(* Physical memory manager of the kernel (zoned buddy allocators):         *)
(* kernel/src/memory_management/physical_memory_manager.rs                 *)
(*                                                                         *)
(* Addresses.  Physical addresses reach 0xFF_FFFF_F000, beyond the range   *)
(* of TLC's integers, so a byte address a is kept as its page number       *)
(* a \div PAGE_SIZE and, where the code handles addresses that need not be *)
(* page aligned (the boot memory map), as the pair                         *)
(* [pg |-> a \div PAGE_SIZE, off |-> a % PAGE_SIZE].  Region bounds, zone  *)
(* bounds, block addresses and sizes are page numbers / page counts.       *)
(***************************************************************************)
EXTENDS Integers, Sequences, FiniteSets, TLC

PAGE_SIZE == 4096

\* Zone bounds as page numbers (address / PAGE_SIZE).
\* 0x100000, 0xFFF000, 0x1000000, 0xFFFF_F000, 0x1_0000_0000, 0xFF_FFFF_F000
ISA_DMA_ZONE_MIN_FIRST_PAGE_ADDR == 256
ISA_DMA_ZONE_MAX_LAST_PAGE_ADDR == 4095
DMA32_MIN_FIRST_PAGE_ADDR == 4096
DMA32_MAX_LAST_PAGE_ADDR == 1048575
HIGH_ZONE_MIN_FIRST_PAGE_ADDR == 1048576
HIGH_ZONE_MAX_LAST_PAGE_ADDR == 268435455

\* size_of::<*mut SlabInfo>() on x86_64
SLAB_INFO_PTR_SIZE == 8

\* Sizes of the static metadata buffers of the ISA DMA and DMA32 allocators
ISA_DMA_ALLOCATOR_METADATA_LEN == 3072
DMA32_ALLOCATOR_METADATA_LEN == 525312

\* usize arithmetic wraps modulo 2^64 bytes = 2^52 pages in a build without
\* overflow checks.  2^52 is beyond TLC's integers; the model wraps page
\* counts modulo 2^30, which like 2^52 exceeds every page number (< 2^28),
\* so every comparison the code makes on a wrapped size has the same outcome.
USIZE_PAGES == 1073741824

MemoryZoneEnum == {"IsaDma", "Dma32", "High"}

ZoneMin(z) ==
    CASE z = "IsaDma" -> ISA_DMA_ZONE_MIN_FIRST_PAGE_ADDR
      [] z = "Dma32"  -> DMA32_MIN_FIRST_PAGE_ADDR
      [] z = "High"   -> HIGH_ZONE_MIN_FIRST_PAGE_ADDR

ZoneMax(z) ==
    CASE z = "IsaDma" -> ISA_DMA_ZONE_MAX_LAST_PAGE_ADDR
      [] z = "Dma32"  -> DMA32_MAX_LAST_PAGE_ADDR
      [] z = "High"   -> HIGH_ZONE_MAX_LAST_PAGE_ADDR

----------------------------------------------------------------------------
\* Bounds of the model

\* Largest number of entries of a boot memory map
MaxMapEntries == 2
\* Largest number of alloc/free calls explored after init
MaxCalls == 2

----------------------------------------------------------------------------
\* Byte addresses of the boot memory map

Addr(pg, off) == [pg |-> pg, off |-> off]

AddrLess(a, b) == a.pg < b.pg \/ (a.pg = b.pg /\ a.off < b.off)

\* PhysAddr::align_up(PAGE_SIZE), as a page number
AlignUpPage(a) == IF a.off = 0 THEN a.pg ELSE a.pg + 1

\* PhysAddr::align_down(PAGE_SIZE), as a page number
AlignDownPage(a) == a.pg

\* a - PAGE_SIZE
SubPageSize(a) == Addr(a.pg - 1, a.off)

Region(first, last) == [first_page |-> first, last_page |-> last]

\* UsableRegion::size() in pages, before any wrap-around: negative when
\* last_page + PAGE_SIZE - first_page underflows
RawSize(r) == r.last_page + 1 - r.first_page

----------------------------------------------------------------------------
\* The boot memory maps explored: entries {start, end (exclusive), kind} with
\* start <= end, as the bootloader hands them over.

Entry(kind, spg, soff, epg, eoff) ==
    [kind |-> kind, start |-> Addr(spg, soff), end |-> Addr(epg, eoff)]

MapEntries ==
    { Entry("Usable", 4088, 0, 4092, 0),          \* 0xFF8000..0xFFC000, ISA DMA
      Entry("Usable", 4094, 0, 4098, 0),          \* 0xFFE000..0x1002000, ISA DMA | DMA32
      Entry("Usable", 4100, 0, 4104, 0),          \* 0x1004000..0x1008000, DMA32
      Entry("Usable", 4103, 0, 4107, 0),          \* 0x1007000..0x100B000, overlaps the previous
      Entry("Usable", 1048568, 0, 1048572, 0),    \* 0xFFFF8000..0xFFFFC000, DMA32
      Entry("Usable", 1048574, 0, 1048578, 0),    \* 0xFFFFE000..0x100002000, DMA32 | HIGH
      Entry("Usable", 1048576, 0, 1048580, 0),    \* 0x100000000..0x100004000, HIGH
      Entry("Usable", 2561, 2048, 2564, 2048),    \* 0xA01800..0xA04800, not page aligned
      Entry("Usable", 4092, 2048, 4094, 2048),    \* 0xFFC800..0xFFE800, not page aligned
      Entry("Reserved", 4080, 0, 4088, 0),        \* not usable
      Entry("Usable", 0, 0, 159, 0),              \* 0x0..0x9F000, below the ISA DMA zone
      Entry("Usable", 268435440, 0, 268435456, 0) \* ends above the HIGH zone
    }

\* 0x100000000..0x100800000: 8 MiB of HIGH memory, room for the slab-info
\* pointer table of a machine whose usable memory starts below 16 MiB
LargeHighEntry == Entry("Usable", 1048576, 0, 1050624, 0)

\* An entry below 16 MiB and the large HIGH entry
LargeMaps ==
    { << e, LargeHighEntry >> :
        e \in { x \in MapEntries : x.start.pg < DMA32_MIN_FIRST_PAGE_ADDR } }

MemoryMaps ==
    UNION { [1..n -> MapEntries] : n \in 0..MaxMapEntries } \cup LargeMaps

----------------------------------------------------------------------------
VARIABLES
    debug_assertions,        \* the build: cfg(debug_assertions) and overflow checks
    pc,                      \* how far init has come
    fatal,                   \* the panic that halted the kernel, "" if none
    memory_regions,          \* boot_info.memory_regions
    USABLE_REGIONS,
    ISA_DMA_USABLE_REGIONS,
    DMA32_USABLE_REGIONS,
    HIGH_USABLE_REGIONS,
    SLAB_INFO_PTRS,          \* the slab-info pointer table: [set, addr, pages, len]
    high_allocator_metadata, \* [addr, pages] of the HIGH allocator's metadata
    zones,                   \* ISA_DMA_ZONE, DMA32_ZONE, HIGH_ZONE
    last,                    \* the last pmm call and what it returned
    calls,                   \* number of pmm calls made after init
    DLMALLOC_ALLOCATOR,      \* the heap's Once: TRUE once init has set it
    zone_lock,               \* per zone, the context holding its Mutex, "none" if free
    contexts                 \* per execution context, how far its pmm call has come

vars == <<debug_assertions, pc, fatal, memory_regions, USABLE_REGIONS,
          ISA_DMA_USABLE_REGIONS, DMA32_USABLE_REGIONS, HIGH_USABLE_REGIONS,
          SLAB_INFO_PTRS, high_allocator_metadata, zones, last, calls,
          DLMALLOC_ALLOCATOR, zone_lock, contexts>>

lists == <<USABLE_REGIONS, ISA_DMA_USABLE_REGIONS, DMA32_USABLE_REGIONS,
           HIGH_USABLE_REGIONS>>

\* Once<Mutex<MemoryZone>> not yet set
NoZone == [inited |-> FALSE, main |-> 0, size |-> 0, free |-> {}, blocks |-> {}]

NoCall == [op |-> "none", zones |-> <<>>, size |-> 0, addr |-> 0, ret |-> 0,
           zone |-> "none"]

\* The execution contexts that call the PMM: the two slab memory backends
\* and the heap's system allocator
Contexts ==
    {"DefaultMemoryBackend", "SlabInfoCacheMemoryBackend", "DlmallocSystemAllocator"}

\* A context that is in no call, holds no Mutex and no block.  want is the
\* Mutexes its call takes before it reaches the PMM, locks those it holds
IdleContext ==
    [pc |-> "idle", op |-> "none", i |-> 0, n |-> 0, pick |-> 0, ret |-> 0,
     held |-> {}, want |-> <<>>, locks |-> <<>>]

\* What a call that runs from its first to its last statement in one step
\* leaves alone: every Mutex it took is released when it returns
in_calls == <<zone_lock, contexts>>

Init ==
    /\ debug_assertions \in BOOLEAN
    /\ pc = "boot"
    /\ fatal = ""
    /\ memory_regions = <<>>
    /\ USABLE_REGIONS = <<>>
    /\ ISA_DMA_USABLE_REGIONS = <<>>
    /\ DMA32_USABLE_REGIONS = <<>>
    /\ HIGH_USABLE_REGIONS = <<>>
    /\ SLAB_INFO_PTRS = [set |-> FALSE, addr |-> 0, pages |-> 0, len |-> 0]
    /\ high_allocator_metadata = [addr |-> 0, pages |-> 0]
    /\ zones = [z \in MemoryZoneEnum |-> NoZone]
    /\ last = NoCall
    /\ calls = 0
    /\ DLMALLOC_ALLOCATOR = FALSE
    /\ zone_lock = [z \in MemoryZoneEnum |-> "none"]
    /\ contexts = [t \in Contexts |-> IdleContext]

\* A panic: the handler prints and halts for ever
Halt(msg) ==
    /\ pc' = "halted"
    /\ fatal' = msg

----------------------------------------------------------------------------
\* collect_usable_regions

FirstPageOf(e) == AlignUpPage(e.start)

\* LastPageOf with PAGE_SIZE replaced by 1: align_down(end - 1)
LastPageOf_EndMinusOne(e) == IF e.end.off = 0 THEN e.end.pg - 1 ELSE e.end.pg

LastPageOf(e) == AlignDownPage(SubPageSize(e.end))

\* start < ISA_DMA_ZONE_MIN_FIRST_PAGE_ADDR || end > HIGH_ZONE_MAX_LAST_PAGE_ADDR
OutOfRange(e) ==
    \/ AddrLess(e.start, Addr(ISA_DMA_ZONE_MIN_FIRST_PAGE_ADDR, 0))
    \/ AddrLess(Addr(HIGH_ZONE_MAX_LAST_PAGE_ADDR, 0), e.end)

\* The entries the first loop pushes
Retained(e) ==
    /\ e.kind = "Usable"
    /\ ~OutOfRange(e)
    /\ ~(LastPageOf(e) <= FirstPageOf(e))
    /\ ~(LastPageOf(e) - FirstPageOf(e) < 1)

PushedRegions(map) ==
    LET kept == SelectSeq(map, Retained)
    IN  [i \in 1..Len(kept) |-> Region(FirstPageOf(kept[i]), LastPageOf(kept[i]))]

IsSortedBy(s, key(_)) == \A i \in 1..(Len(s) - 1) : key(s[i]) <= key(s[i + 1])

FirstPageKey(r) == r.first_page

LastPageKey(r) == r.last_page

RemoveAt(s, i) == [j \in 1..(Len(s) - 1) |-> IF j < i THEN s[j] ELSE s[j + 1]]

\* sort_unstable_by_key(|a| a.first_page): every ordering of the same regions
\* that is ascending by first_page (regions of equal key in any order)
RECURSIVE SortUnstableByFirstPage(_)
SortUnstableByFirstPage(s) ==
    IF s = <<>> THEN { <<>> }
    ELSE UNION { { <<s[i]>> \o t : t \in SortUnstableByFirstPage(RemoveAt(s, i)) } :
                 i \in { k \in 1..Len(s) :
                           \A j \in 1..Len(s) : s[k].first_page <= s[j].first_page } }

\* AdjustUsableRegion that gives None to a region not wholly inside the limits
AdjustUsableRegion_WhollyInside(r, limit_first_page, limit_last_page) ==
    IF r.first_page < limit_first_page \/ r.last_page > limit_last_page
    THEN <<>>
    ELSE << r >>

\* AdjustUsableRegion that forgets to clip last_page
AdjustUsableRegion_LastPageKept(r, limit_first_page, limit_last_page) ==
    IF r.last_page < limit_first_page \/ r.first_page > limit_last_page
    THEN <<>>
    ELSE << Region(IF r.first_page < limit_first_page THEN limit_first_page
                                                     ELSE r.first_page,
                   r.last_page) >>

\* Option<UsableRegion> as a sequence of zero or one region
AdjustUsableRegion(r, limit_first_page, limit_last_page) ==
    IF r.last_page < limit_first_page \/ r.first_page > limit_last_page
    THEN <<>>
    ELSE << Region(IF r.first_page < limit_first_page THEN limit_first_page
                                                     ELSE r.first_page,
                   IF r.last_page > limit_last_page THEN limit_last_page
                                                    ELSE r.last_page) >>

RECURSIVE ZoneRegions(_, _)
ZoneRegions(all, z) ==
    IF all = <<>> THEN <<>>
    ELSE AdjustUsableRegion(Head(all), ZoneMin(z), ZoneMax(z))
            \o ZoneRegions(Tail(all), z)

\* The cfg(debug_assertions) block closing collect_usable_regions
CollectDebugChecks(all, isa, dma32, high) ==
    /\ \A i \in 1..Len(all) :
          /\ all[i].first_page >= ISA_DMA_ZONE_MIN_FIRST_PAGE_ADDR
          /\ all[i].first_page <= all[i].last_page
    /\ \A i \in 1..Len(isa) :
          /\ isa[i].first_page >= ZoneMin("IsaDma")
          /\ isa[i].last_page <= ZoneMax("IsaDma")
          /\ isa[i].first_page <= isa[i].last_page
    /\ \A i \in 1..Len(dma32) :
          /\ dma32[i].first_page >= ZoneMin("Dma32")
          /\ dma32[i].last_page <= ZoneMax("Dma32")
          /\ dma32[i].first_page <= dma32[i].last_page
    /\ \A i \in 1..Len(high) :
          /\ high[i].first_page >= ZoneMin("High")
          /\ high[i].last_page <= ZoneMax("High")
          /\ high[i].first_page <= high[i].last_page

\* init runs once, at boot, before the kernel's first pmm call (main.rs); a
\* call made before init is followed up to its return only.
CollectUsableRegions(map) ==
    /\ pc = "boot"
    /\ calls = 0
    /\ memory_regions' = map
    /\ \E sorted \in SortUnstableByFirstPage(PushedRegions(map)) :
         LET isa   == ZoneRegions(sorted, "IsaDma")
             dma32 == ZoneRegions(sorted, "Dma32")
             high  == ZoneRegions(sorted, "High")
         IN  IF debug_assertions => CollectDebugChecks(sorted, isa, dma32, high)
             THEN /\ USABLE_REGIONS' = sorted
                  /\ ISA_DMA_USABLE_REGIONS' = isa
                  /\ DMA32_USABLE_REGIONS' = dma32
                  /\ HIGH_USABLE_REGIONS' = high
                  /\ pc' = "collected"
                  /\ fatal' = fatal
             ELSE /\ Halt("collect_usable_regions: assertion failed")
                  /\ UNCHANGED lists
    /\ UNCHANGED <<debug_assertions, DLMALLOC_ALLOCATOR,
                   SLAB_INFO_PTRS, high_allocator_metadata,
                   zones, last, calls>>
    /\ UNCHANGED in_calls

----------------------------------------------------------------------------
\* UsableRegion::size(), in pages

\* "attempt to subtract with overflow": a build with overflow checks panics
SizeFaults(r) == debug_assertions /\ RawSize(r) < 0

\* The value size() returns when it returns (wrapped in a build without
\* overflow checks)
Size(r) == IF RawSize(r) >= 0 THEN RawSize(r) ELSE USIZE_PAGES + RawSize(r)

Min(S) == CHOOSE x \in S : \A y \in S : x <= y

Max(S) == CHOOSE x \in S : \A y \in S : x >= y

\* "Don't forget to change data in other list": the first region of the list
\* whose first_page is old gets first_page new, followed by
\* assert!(v.size() >= PAGE_SIZE).  [list, ok]
AdvanceInList(list, old, new) ==
    LET hits == { j \in 1..Len(list) : list[j].first_page = old }
    IN  IF hits = {} THEN [list |-> list, ok |-> TRUE]
        ELSE LET j   == Min(hits)
                 upd == [list EXCEPT ![j].first_page = new]
             IN  [list |-> upd,
                  ok   |-> ~SizeFaults(upd[j]) /\ Size(upd[j]) >= 1]

----------------------------------------------------------------------------
\* init_slab_info_ptrs_array

\* Pages of the table for number_of_slab_infos slots:
\* align_up(number_of_slab_infos * size_of::<*mut SlabInfo>(), PAGE_SIZE)
SlabInfoPtrsPages(number_of_slab_infos) ==
    (number_of_slab_infos + (PAGE_SIZE \div SLAB_INFO_PTR_SIZE) - 1)
        \div (PAGE_SIZE \div SLAB_INFO_PTR_SIZE)

\* The regions the reverse loop may take the table from
SlabInfoPtrsDonors(all, required) ==
    { i \in 1..Len(all) : Size(all[i]) >= required + 1 }

\* The one it takes: the first found iterating from the end
SlabInfoPtrsDonor(all, required) == Max(SlabInfoPtrsDonors(all, required))

\* USABLE_REGIONS.lock().first().unwrap() returning for an empty list
NoUsableRegion_Tolerated ==
    /\ pc' = "slab_info_ptrs"
    /\ fatal' = fatal
    /\ UNCHANGED <<lists, SLAB_INFO_PTRS>>

\* USABLE_REGIONS.lock().first().unwrap() on an empty list
NoUsableRegion ==
    /\ Halt("init_slab_info_ptrs_array: unwrap on None")
    /\ UNCHANGED <<lists, SLAB_INFO_PTRS>>

InitSlabInfoPtrsArray ==
    /\ pc = "collected"
    /\ IF USABLE_REGIONS = <<>>
       THEN NoUsableRegion
       ELSE
         LET all      == USABLE_REGIONS
             number_of_slab_infos ==
                 all[Len(all)].last_page + 1 - all[1].first_page
             required == SlabInfoPtrsPages(number_of_slab_infos)
         IN
         IF SlabInfoPtrsDonors(all, required) = {}
         THEN /\ Halt("Failed to find memory for SlabInfo pointers array")
              /\ UNCHANGED <<lists, SLAB_INFO_PTRS>>
         ELSE
           LET i     == SlabInfoPtrsDonor(all, required)
               old   == all[i].first_page
               new   == old + required
               all2  == [all EXCEPT ![i].first_page = new]
               isa   == AdvanceInList(ISA_DMA_USABLE_REGIONS, old, new)
               dma32 == AdvanceInList(DMA32_USABLE_REGIONS, old, new)
               high  == AdvanceInList(HIGH_USABLE_REGIONS, old, new)
           IN
           IF ~(isa.ok /\ dma32.ok /\ high.ok)
           THEN /\ Halt("init_slab_info_ptrs_array: assertion failed: v.size() >= PAGE_SIZE")
                /\ UNCHANGED <<lists, SLAB_INFO_PTRS>>
           ELSE IF ~IsSortedBy(all2, FirstPageKey)
           THEN /\ Halt("Usable regions sort broken")
                /\ UNCHANGED <<lists, SLAB_INFO_PTRS>>
           ELSE /\ USABLE_REGIONS' = all2
                /\ ISA_DMA_USABLE_REGIONS' = isa.list
                /\ DMA32_USABLE_REGIONS' = dma32.list
                /\ HIGH_USABLE_REGIONS' = high.list
                /\ SLAB_INFO_PTRS' = [set |-> TRUE, addr |-> old,
                                      pages |-> required,
                                      len |-> number_of_slab_infos]
                /\ pc' = "slab_info_ptrs"
                /\ fatal' = fatal
    \* memory_regions is the argument of collect_usable_regions: nothing reads
    \* it once that call has returned
    /\ memory_regions' = <<>>
    /\ UNCHANGED <<debug_assertions, DLMALLOC_ALLOCATOR,
                   high_allocator_metadata, zones, last, calls>>
    /\ UNCHANGED in_calls

----------------------------------------------------------------------------
\* Complete Physical Memory Mapping and the slab-info pointer table

\* Addresses are 64 bits wide.  A virtual address is [cpmm, pg]: cpmm units
\* of 2^40 bytes (PagesPerUnit pages) plus pg pages below that; the null
\* pointer is [cpmm |-> 0, pg |-> 0].  A physical address is a page number.
PagesPerUnit == 268435456

\* 2^64 bytes in units of 2^40 bytes: u64 arithmetic wraps at it
UnitsPerWord == 16777216

\* 0xFFFF_A000_0000_0000, in units of 2^40 bytes
PHYSICAL_MEMORY_MAPPING_OFFSET == 16777120

VirtAddr(cpmm, pg) == [cpmm |-> cpmm, pg |-> pg]

NullPtr == VirtAddr(0, 0)

\* phys_addr.as_u64() + PHYSICAL_MEMORY_MAPPING_OFFSET leaves 64 bits
CpmmAddOverflows(phys_page) ==
    phys_page \div PagesPerUnit + PHYSICAL_MEMORY_MAPPING_OFFSET >= UnitsPerWord

\* phys_addr + PHYSICAL_MEMORY_MAPPING_OFFSET
PhysAddrToCpmmVirtAddr(phys_page) ==
    VirtAddr((phys_page \div PagesPerUnit + PHYSICAL_MEMORY_MAPPING_OFFSET)
                 % UnitsPerWord,
             phys_page % PagesPerUnit)

\* A translation back that subtracts an offset 2^40 bytes short
VirtAddrFromCpmmToPhysAddr_OtherOffset(virt_addr) ==
    ((virt_addr.cpmm - (PHYSICAL_MEMORY_MAPPING_OFFSET - 1)) % UnitsPerWord)
        * PagesPerUnit + virt_addr.pg

\* virt_addr - PHYSICAL_MEMORY_MAPPING_OFFSET
VirtAddrFromCpmmToPhysAddr(virt_addr) ==
    ((virt_addr.cpmm - PHYSICAL_MEMORY_MAPPING_OFFSET) % UnitsPerWord)
        * PagesPerUnit + virt_addr.pg

\* The slot save_slab_info_ptr and get_slab_info_ptr use for the page at
\* object_page_addr: phys_addr / PAGE_SIZE
SlabInfoPtrIndex(object_page_addr) ==
    VirtAddrFromCpmmToPhysAddr(object_page_addr)

----------------------------------------------------------------------------
\* The buddy allocator of a zone (crate buddy_alloc), page granular:
\* [inited, main, size, free, blocks]: the arena is the pages main ..
\* main + size - 1, free the pages not allocated, blocks the blocks malloc
\* handed out, each [addr, size].

\* BuddyAlloc::sizeof_alignment(range_size, PAGE_SIZE), in bytes: half a byte
\* for each page and a header, as the sizes the source notes for 16 MB, 4 GB
\* and 32 GB arenas
BuddySizeofAlignment(range_pages) == 1024 + range_pages \div 2

BuddyInitAlignment(main, size) ==
    [inited |-> TRUE, main |-> main, size |-> size,
     free |-> main..(main + size - 1), blocks |-> {}]

InArena(b, addr, n) == addr >= b.main /\ addr + n <= b.main + b.size

BuddyReserveRange(b, addr, n) ==
    IF InArena(b, addr, n) THEN [b EXCEPT !.free = @ \ (addr..(addr + n - 1))]
    ELSE b

BuddyUnsafeReleaseRange(b, addr, n) ==
    IF InArena(b, addr, n) THEN [b EXCEPT !.free = @ \cup (addr..(addr + n - 1))]
    ELSE b

\* arena_free_size(), in pages
BuddyArenaFreeSize(b) == Cardinality(b.free)

----------------------------------------------------------------------------
\* init_allocators

\* Step 6: unsafe_release_range for each usable region, in list order
RECURSIVE ReleaseRegions(_, _)
ReleaseRegions(b, list) ==
    IF list = <<>> THEN b
    ELSE ReleaseRegions(
            BuddyUnsafeReleaseRange(b, Head(list).first_page, Size(Head(list))),
            Tail(list))

\* last_page + PAGE_SIZE - first_page of the zone's list
RangeSize(list) == list[Len(list)].last_page + 1 - list[1].first_page

\* Steps 1, 2, 4, 5, 6 for a zone whose list is not empty: [ok, zone].
\* metadata_len is the size of the static metadata buffer, 0 for none.
BootstrapZone(list, metadata_len) ==
    IF \/ RangeSize(list) < 1
       \/ (metadata_len > 0 /\ BuddySizeofAlignment(RangeSize(list)) > metadata_len)
       \/ \E i \in 1..Len(list) : SizeFaults(list[i])
    THEN [ok |-> FALSE, zone |-> NoZone]
    ELSE [ok |-> TRUE,
          zone |-> ReleaseRegions(
                      BuddyReserveRange(
                          BuddyInitAlignment(list[1].first_page, RangeSize(list)),
                          list[1].first_page, RangeSize(list)),
                      list)]

\* init_allocators without its ISA DMA block: the zone is never published
InitIsaDmaAllocator_NeverPublished ==
    /\ pc = "slab_info_ptrs"
    /\ pc' = "isa_dma"
    /\ UNCHANGED <<debug_assertions, DLMALLOC_ALLOCATOR,
                   fatal, memory_regions, lists,
                   SLAB_INFO_PTRS, high_allocator_metadata, zones, last, calls>>
    /\ UNCHANGED in_calls

InitIsaDmaAllocator ==
    /\ pc = "slab_info_ptrs"
    /\ IF ISA_DMA_USABLE_REGIONS = <<>>
       THEN /\ pc' = "isa_dma"
            /\ UNCHANGED <<fatal, zones>>
       ELSE LET r == BootstrapZone(ISA_DMA_USABLE_REGIONS,
                                   ISA_DMA_ALLOCATOR_METADATA_LEN)
            IN  IF r.ok
                THEN /\ zones' = [zones EXCEPT !["IsaDma"] = r.zone]
                     /\ pc' = "isa_dma"
                     /\ fatal' = fatal
                ELSE /\ Halt("Failed to init ISA DMA buddy allocator!")
                     /\ UNCHANGED zones
    /\ UNCHANGED <<debug_assertions, DLMALLOC_ALLOCATOR,
                   memory_regions, lists, SLAB_INFO_PTRS,
                   high_allocator_metadata, last, calls>>
    /\ UNCHANGED in_calls

InitDma32Allocator ==
    /\ pc = "isa_dma"
    /\ IF DMA32_USABLE_REGIONS = <<>>
       THEN /\ pc' = "dma32"
            /\ UNCHANGED <<fatal, zones>>
       ELSE LET r == BootstrapZone(DMA32_USABLE_REGIONS,
                                   DMA32_ALLOCATOR_METADATA_LEN)
            IN  IF r.ok
                THEN /\ zones' = [zones EXCEPT !["Dma32"] = r.zone]
                     /\ pc' = "dma32"
                     /\ fatal' = fatal
                ELSE /\ Halt("Failed to init DMA32 buddy allocator!")
                     /\ UNCHANGED zones
    /\ UNCHANGED <<debug_assertions, DLMALLOC_ALLOCATOR,
                   memory_regions, lists, SLAB_INFO_PTRS,
                   high_allocator_metadata, last, calls>>
    /\ UNCHANGED in_calls

\* Pages of the HIGH allocator's metadata:
\* align_up(sizeof_alignment(range_size, PAGE_SIZE), PAGE_SIZE)
HighMetadataPages(range_pages) ==
    (BuddySizeofAlignment(range_pages) + PAGE_SIZE - 1) \div PAGE_SIZE

\* Step 3: the DMA32 regions that can hold the metadata
HighMetadataDonors(dma32, metadata_pages) ==
    { i \in 1..Len(dma32) : Size(dma32[i]) >= metadata_pages + 1 }

\* The one the forward loop takes
HighMetadataDonor(dma32, metadata_pages) ==
    Min(HighMetadataDonors(dma32, metadata_pages))

\* The regions whose size() the forward loop evaluates
HighMetadataExamined(dma32, metadata_pages) ==
    IF HighMetadataDonors(dma32, metadata_pages) = {} THEN 1..Len(dma32)
    ELSE 1..HighMetadataDonor(dma32, metadata_pages)

\* The carve without its last statement: the donated pages stay free
MarkHighMetadata_NotReserved(b, addr, pages) == b

\* "Mark allocated memory in DMA32 allocator": reserve_range on the donated
\* pages, after the DMA32 regions were released
MarkHighMetadata(b, addr, pages) == BuddyReserveRange(b, addr, pages)

\* The closing check of init_allocators
NoZoneInited(zs) == \A z \in MemoryZoneEnum : ~zs[z].inited

InitHighAllocator ==
    /\ pc = "dma32"
    /\ IF HIGH_USABLE_REGIONS = <<>>
       THEN /\ IF NoZoneInited(zones)
               THEN Halt("All buddy allocators not inited!")
               ELSE pc' = "allocators" /\ fatal' = fatal
            /\ UNCHANGED <<lists, high_allocator_metadata, zones>>
       ELSE
         LET high  == HIGH_USABLE_REGIONS
             dma32 == DMA32_USABLE_REGIONS
             metadata_size == HighMetadataPages(RangeSize(high))
         IN
         IF \/ RangeSize(high) < 1
            \/ \E i \in HighMetadataExamined(dma32, metadata_size) :
                  SizeFaults(dma32[i])
         THEN /\ Halt("Failed to calculate metadata size for HIGH allocator!")
              /\ UNCHANGED <<lists, high_allocator_metadata, zones>>
         ELSE IF HighMetadataDonors(dma32, metadata_size) = {}
         THEN /\ Halt("Failed to allocate memory for HIGH allocator's metadata!")
              /\ UNCHANGED <<lists, high_allocator_metadata, zones>>
         ELSE
           LET i    == HighMetadataDonor(dma32, metadata_size)
               old  == dma32[i].first_page
               new  == old + metadata_size
               donor == [dma32 EXCEPT ![i].first_page = new]
               all  == AdvanceInList(USABLE_REGIONS, old, new)
               r    == BootstrapZone(high, 0)
           IN
           IF ~(~SizeFaults(donor[i]) /\ Size(donor[i]) >= 1 /\ all.ok /\ r.ok)
           THEN /\ Halt("init_allocators: HIGH: assertion failed")
                /\ UNCHANGED <<lists, high_allocator_metadata, zones>>
           ELSE /\ DMA32_USABLE_REGIONS' = donor
                /\ USABLE_REGIONS' = all.list
                /\ UNCHANGED <<ISA_DMA_USABLE_REGIONS, HIGH_USABLE_REGIONS>>
                /\ high_allocator_metadata' =
                       [addr |-> old, pages |-> metadata_size]
                /\ zones' = [zones EXCEPT
                       !["Dma32"] = MarkHighMetadata(@, old, metadata_size),
                       !["High"] = r.zone]
                /\ pc' = "allocators"
                /\ fatal' = fatal
    /\ UNCHANGED <<debug_assertions, DLMALLOC_ALLOCATOR,
                   memory_regions, SLAB_INFO_PTRS, last, calls>>
    /\ UNCHANGED in_calls

----------------------------------------------------------------------------
\* The checks closing init

SizeKey(r) == IF Size(r) >= 1 THEN 1 ELSE 0

\* "Check lists" for one list
ListChecks(list) ==
    /\ IsSortedBy(list, FirstPageKey)
    /\ IsSortedBy(list, LastPageKey)
    /\ \A i \in 1..Len(list) : ~SizeFaults(list[i])
    /\ IsSortedBy(list, SizeKey)

\* "Checks if the region is in more than in one zone at the same time"
WasFoundNTimes(r) ==
    Cardinality({ l \in {"IsaDma", "Dma32", "High"} :
        LET list == CASE l = "IsaDma" -> ISA_DMA_USABLE_REGIONS
                      [] l = "Dma32"  -> DMA32_USABLE_REGIONS
                      [] l = "High"   -> HIGH_USABLE_REGIONS
        IN  \E j \in 1..Len(list) : list[j] = r })

RECURSIVE SumSizes(_)
SumSizes(list) ==
    IF list = <<>> THEN 0 ELSE (Size(Head(list)) + SumSizes(Tail(list))) % USIZE_PAGES

ZoneList(z) ==
    CASE z = "IsaDma" -> ISA_DMA_USABLE_REGIONS
      [] z = "Dma32"  -> DMA32_USABLE_REGIONS
      [] z = "High"   -> HIGH_USABLE_REGIONS

\* "Check free memory in allocator and regions"
FreeMemoryCheck(z) ==
    zones[z].inited => BuddyArenaFreeSize(zones[z]) = SumSizes(ZoneList(z))

InitChecksPass ==
    /\ ListChecks(USABLE_REGIONS)
    /\ ListChecks(ISA_DMA_USABLE_REGIONS)
    /\ ListChecks(DMA32_USABLE_REGIONS)
    /\ ListChecks(HIGH_USABLE_REGIONS)
    /\ Len(USABLE_REGIONS) = Len(ISA_DMA_USABLE_REGIONS)
            + Len(DMA32_USABLE_REGIONS) + Len(HIGH_USABLE_REGIONS)
    /\ \A i \in 1..Len(USABLE_REGIONS) : WasFoundNTimes(USABLE_REGIONS[i]) = 1
    /\ \A z \in MemoryZoneEnum : FreeMemoryCheck(z)

InitChecks ==
    /\ pc = "allocators"
    /\ IF InitChecksPass
       THEN pc' = "pmm" /\ fatal' = fatal
       ELSE Halt("init: assertion failed")
    /\ UNCHANGED <<debug_assertions, DLMALLOC_ALLOCATOR,
                   memory_regions, lists, SLAB_INFO_PTRS,
                   high_allocator_metadata, zones, last, calls>>
    /\ UNCHANGED in_calls

----------------------------------------------------------------------------
\* The buddy allocator's malloc and free

\* The blocks malloc(n) may hand out: n free pages, aligned to n from the
\* start of the arena
BuddyMallocBlocks(b, n) ==
    { a \in b.free : /\ (a - b.main) % n = 0
                     /\ \A k \in 0..(n - 1) : a + k \in b.free }

BuddyMalloc(b, a, n) ==
    [b EXCEPT !.free = @ \ (a..(a + n - 1)),
              !.blocks = @ \cup {[addr |-> a, size |-> n]}]

BuddyFree(b, a) ==
    IF \E x \in b.blocks : x.addr = a
    THEN LET blk == CHOOSE x \in b.blocks : x.addr = a
         IN  [b EXCEPT !.free = @ \cup (a..(a + blk.size - 1)),
                       !.blocks = @ \ {blk}]
    ELSE b

\* realloc(ptr, size, ignore_data = true): the outcomes [zone, ret].  The
\* block may stay, shrink or grow in place, or move to any free block of
\* the new size; null, with the old block kept, when there is none.
BuddyRealloc(b, a, n) ==
    LET b1 == BuddyFree(b, a)
    IN  IF BuddyMallocBlocks(b1, n) = {}
        THEN { [zone |-> b, ret |-> 0] }
        ELSE { [zone |-> BuddyMalloc(b1, c, n), ret |-> c] :
                 c \in BuddyMallocBlocks(b1, n) }

----------------------------------------------------------------------------
\* alloc, free, realloc

\* The zone lists and sizes (in pages) callers pass
ZoneLists ==
    { <<>>, <<"High", "IsaDma", "Dma32">>, <<"High", "Dma32", "IsaDma">> }
    \cup { <<a>> : a \in MemoryZoneEnum }
    \cup { zs \in { <<a, b>> : a, b \in MemoryZoneEnum } : zs[1] # zs[2] }

AllocSizes == {1, 2, 4}

\* "Zone exist?" and malloc does not return null
CanServe(z, n) == zones[z].inited /\ BuddyMallocBlocks(zones[z], n) # {}

\* ServingEntries of a loop that returns null when its first zone has no block
ServingEntries_FirstEntryOnly(zs, n) ==
    { i \in 1..Len(zs) : i = 1 /\ CanServe(zs[i], n) }

\* The entries of the list whose zone returns a block
ServingEntries(zs, n) == { i \in 1..Len(zs) : CanServe(zs[i], n) }

\* ServingEntry of a loop that keeps the last block found, not the first
ServingEntry_Last(zs, n) == Max(ServingEntries(zs, n))

\* The entry the loop returns from
ServingEntry(zs, n) == Min(ServingEntries(zs, n))

\* A size a caller must not pass: no page at all, three pages
InvalidSizes == {0, 3}

IsPowerOfTwo(n) == \E k \in 0..30 : n = 2 ^ k

\* requested_size >= PAGE_SIZE && requested_size.is_power_of_two()
ValidSize(n) == n >= 1 /\ IsPowerOfTwo(n)

\* The size of the block the buddy allocator hands out for a request of n
\* pages: the smallest power of two that holds it, a page at least
BuddyBlockSize(n) == Min({ m \in {2 ^ k : k \in 0..30} : m >= n })

\* The panic alloc ends in, "" if it has none: the size is checked by a
\* debug_assert!
AllocFault(n) ==
    IF debug_assertions /\ ~ValidSize(n)
    THEN "Requested size must be one or more pages"
    ELSE ""

Alloc(zs, n) ==
    /\ pc \in {"boot", "ready"}
    /\ calls < MaxCalls
    /\ calls' = calls + 1
    /\ IF AllocFault(n) # ""
       THEN /\ Halt(AllocFault(n))
            /\ last' = [op |-> "alloc", zones |-> zs, size |-> n, addr |-> 0,
                        ret |-> 0, zone |-> "none"]
            /\ UNCHANGED zones
       ELSE /\ UNCHANGED <<pc, fatal>>
            /\ LET m == BuddyBlockSize(n)
               IN  IF ServingEntries(zs, m) = {}
                   THEN /\ last' = [op |-> "alloc", zones |-> zs, size |-> n,
                                    addr |-> 0, ret |-> 0, zone |-> "none"]
                        /\ UNCHANGED zones
                   ELSE LET z == zs[ServingEntry(zs, m)]
                        IN  \E a \in BuddyMallocBlocks(zones[z], m) :
                              /\ zones' = [zones EXCEPT ![z] = BuddyMalloc(@, a, m)]
                              /\ last' = [op |-> "alloc", zones |-> zs, size |-> n,
                                          addr |-> 0, ret |-> a, zone |-> z]
    /\ UNCHANGED <<debug_assertions, DLMALLOC_ALLOCATOR, memory_regions, lists,
                   SLAB_INFO_PTRS, high_allocator_metadata>>
    /\ UNCHANGED in_calls

InZone(a, z) == a >= ZoneMin(z) /\ a <= ZoneMax(z)

\* get_zone_allocator_by_addr whose first test uses the upper bound of DMA32
GetZoneAllocatorByAddr_WrongBound(a) ==
    IF a >= ISA_DMA_ZONE_MIN_FIRST_PAGE_ADDR /\ a <= DMA32_MAX_LAST_PAGE_ADDR
    THEN "IsaDma"
    ELSE IF InZone(a, "Dma32") THEN "Dma32"
    ELSE "High"

\* get_zone_allocator_by_addr that tests only the lower bounds
GetZoneAllocatorByAddr_LowerBoundsOnly(a) ==
    IF a >= ISA_DMA_ZONE_MIN_FIRST_PAGE_ADDR THEN "IsaDma"
    ELSE IF a >= DMA32_MIN_FIRST_PAGE_ADDR THEN "Dma32"
    ELSE "High"

\* get_zone_allocator_by_addr without its last branch: an address of no zone
\* is taken for one of the HIGH zone
GetZoneAllocatorByAddr_ElseHigh(a) ==
    IF InZone(a, "IsaDma") THEN "IsaDma"
    ELSE IF InZone(a, "Dma32") THEN "Dma32"
    ELSE "High"

\* get_zone_allocator_by_addr: the zone whose range holds the address,
\* "none" where the code reaches unreachable!
GetZoneAllocatorByAddr(a) ==
    IF InZone(a, "IsaDma") THEN "IsaDma"
    ELSE IF InZone(a, "Dma32") THEN "Dma32"
    ELSE IF InZone(a, "High") THEN "High"
    ELSE "none"

\* The addresses of the blocks now allocated
AllocatedAddrs == UNION { { b.addr : b \in zones[z].blocks } : z \in MemoryZoneEnum }

\* Addresses no alloc returned: null, 0xFF000 below the zones, the first
\* address above the HIGH zone, the first address of each zone not set
ForeignAddrs ==
    {0, ISA_DMA_ZONE_MIN_FIRST_PAGE_ADDR - 1, HIGH_ZONE_MAX_LAST_PAGE_ADDR + 1}
    \cup { ZoneMin(z) : z \in { y \in MemoryZoneEnum : ~zones[y].inited } }

\* The panic free(a) ends in, "" if it has none
FreeFault(a) ==
    IF debug_assertions /\ a = 0 THEN "Trying to free null address"
    ELSE IF GetZoneAllocatorByAddr(a) = "none" THEN "Trying to free invalid address"
    ELSE IF ~zones[GetZoneAllocatorByAddr(a)].inited
    THEN "Trying to free memory from non-existing zone"
    ELSE ""

\* free
Free(a) ==
    /\ pc = "ready"
    /\ calls < MaxCalls
    /\ calls' = calls + 1
    /\ LET z == GetZoneAllocatorByAddr(a)
       IN  /\ last' = [op |-> "free", zones |-> <<>>, size |-> 0, addr |-> a,
                       ret |-> 0, zone |-> z]
           /\ IF FreeFault(a) = ""
              THEN /\ zones' = [zones EXCEPT ![z] = BuddyFree(@, a)]
                   /\ UNCHANGED <<pc, fatal>>
              ELSE /\ Halt(FreeFault(a))
                   /\ UNCHANGED zones
    /\ UNCHANGED <<debug_assertions, DLMALLOC_ALLOCATOR, memory_regions, lists,
                   SLAB_INFO_PTRS, high_allocator_metadata>>
    /\ UNCHANGED in_calls

\* realloc that looks for the zone before it looks at ignore_data
ReallocFault_ZoneFirst(a, ignore_data) ==
    IF GetZoneAllocatorByAddr(a) = "none" THEN "Trying to free invalid address"
    ELSE IF ~zones[GetZoneAllocatorByAddr(a)].inited
    THEN "Trying to free memory from non-existing zone"
    ELSE IF ~ignore_data
    THEN "not implemented: the buddy allocator will not be able to move data"
    ELSE ""

\* The panic realloc(a, .., ignore_data) ends in, "" if it has none
ReallocFault(a, ignore_data) ==
    IF ~ignore_data
    THEN "not implemented: the buddy allocator will not be able to move data"
    ELSE IF GetZoneAllocatorByAddr(a) = "none" THEN "Trying to free invalid address"
    ELSE IF ~zones[GetZoneAllocatorByAddr(a)].inited
    THEN "Trying to free memory from non-existing zone"
    ELSE ""

\* realloc
Realloc(a, n, ignore_data) ==
    /\ pc = "ready"
    /\ calls < MaxCalls
    /\ calls' = calls + 1
    /\ LET z == GetZoneAllocatorByAddr(a)
       IN  IF ReallocFault(a, ignore_data) = ""
           THEN /\ \E o \in BuddyRealloc(zones[z], a, n) :
                     /\ zones' = [zones EXCEPT ![z] = o.zone]
                     /\ last' = [op |-> "realloc", zones |-> <<>>,
                                 size |-> n, addr |-> a, ret |-> o.ret,
                                 zone |-> z, ignore_data |-> ignore_data]
                /\ UNCHANGED <<pc, fatal>>
           ELSE /\ Halt(ReallocFault(a, ignore_data))
                /\ last' = [op |-> "realloc", zones |-> <<>>, size |-> n,
                            addr |-> a, ret |-> 0,
                            zone |-> IF ignore_data THEN z ELSE "none",
                            ignore_data |-> ignore_data]
                /\ UNCHANGED zones
    /\ UNCHANGED <<debug_assertions, DLMALLOC_ALLOCATOR, memory_regions, lists,
                   SLAB_INFO_PTRS, high_allocator_metadata>>
    /\ UNCHANGED in_calls

----------------------------------------------------------------------------
\* The callers of alloc: the slab allocator's memory backends and the heap

\* alloc whose loop does not return at the first block: the last zone able
\* to serve loses a block as well
AllocOutcomes_NoEarlyReturn(zs, n) ==
    IF ServingEntries(zs, n) = {}
    THEN { [ret |-> 0, zone |-> "none", zones |-> zones] }
    ELSE LET z == zs[ServingEntry(zs, n)]
             y == zs[Max(ServingEntries(zs, n))]
             b == CHOOSE x \in BuddyMallocBlocks(zones[y], n) : TRUE
         IN  { [ret |-> a, zone |-> z,
                zones |-> [zones EXCEPT
                              ![z] = BuddyMalloc(@, a, n),
                              ![y] = IF y = z THEN @ ELSE BuddyMalloc(@, b, n)]] :
                  a \in BuddyMallocBlocks(zones[z], n) }

\* What alloc(zs, n) may do: [ret, zone, zones], the zones after the call
AllocOutcomes(zs, n) ==
    IF ServingEntries(zs, n) = {}
    THEN { [ret |-> 0, zone |-> "none", zones |-> zones] }
    ELSE LET z == zs[ServingEntry(zs, n)]
         IN  { [ret |-> a, zone |-> z,
                zones |-> [zones EXCEPT ![z] = BuddyMalloc(@, a, n)]] :
                  a \in BuddyMallocBlocks(zones[z], n) }

\* The zones both slab backends ask, in their order
SlabZones == <<"High", "IsaDma", "Dma32">>

\* The zones the heap's system allocator asks, in its order
HeapZones == <<"High", "Dma32", "IsaDma">>

MemoryBackends == {"DefaultMemoryBackend", "SlabInfoCacheMemoryBackend"}

\* alloc_slab that converts whatever alloc returned
DefaultAllocSlab_NullNotChecked(phys_addr) == PhysAddrToCpmmVirtAddr(phys_addr)

\* DefaultMemoryBackend::alloc_slab: what it returns for alloc's phys_addr
DefaultAllocSlab(phys_addr) ==
    IF phys_addr = 0 THEN NullPtr ELSE PhysAddrToCpmmVirtAddr(phys_addr)

\* SlabInfoCacheMemoryBackend::alloc_slab: what it returns for alloc's phys_addr
SlabInfoCacheAllocSlab(phys_addr) ==
    IF phys_addr = 0 THEN NullPtr ELSE PhysAddrToCpmmVirtAddr(phys_addr)

\* DlmallocSystemAllocator::alloc: (ptr, size, flags) for alloc's phys_addr
DlmallocSystemAlloc(phys_addr, size) ==
    IF phys_addr = 0 THEN <<NullPtr, 0, 0>>
    ELSE <<PhysAddrToCpmmVirtAddr(phys_addr), size, 0>>

\* Dlmalloc::malloc of a heap without a free chunk: null when the system
\* allocator gave nothing, else a pointer into the segment it gave
DlmallocMalloc(segment) ==
    IF segment[1] = NullPtr THEN NullPtr ELSE segment[1]

\* GeneralPurposeAllocator::allocate for a layout of non-zero size: what it
\* returns for the pointer malloc returned
GeneralPurposeAllocate(allocated_ptr, size) ==
    IF allocated_ptr = NullPtr
    THEN [ok |-> FALSE, err |-> "AllocError", ptr |-> NullPtr, len |-> 0]
    ELSE [ok |-> TRUE, err |-> "", ptr |-> allocated_ptr, len |-> size]

\* The panic alloc_slab and free_slab end in for a slab size, "" if they have
\* none: the size is checked by a debug_assert!
SlabSizeFault(n) ==
    IF debug_assertions /\ ~ValidSize(n)
    THEN "Slab allocator tries to allocate or free invalid slab size"
    ELSE ""

\* alloc_slab of one of the two backends
AllocSlab(backend, n) ==
    /\ pc = "ready"
    /\ calls < MaxCalls
    /\ calls' = calls + 1
    /\ IF SlabSizeFault(n) # ""
       THEN /\ Halt(SlabSizeFault(n))
            /\ last' = [op |-> "alloc_slab", backend |-> backend,
                        zones |-> SlabZones, size |-> n, addr |-> 0,
                        ret |-> 0, zone |-> "none", out |-> NullPtr]
            /\ UNCHANGED zones
       ELSE /\ UNCHANGED <<pc, fatal>>
            /\ \E o \in AllocOutcomes(SlabZones, BuddyBlockSize(n)) :
                  /\ zones' = o.zones
                  /\ last' = [op |-> "alloc_slab", backend |-> backend,
                              zones |-> SlabZones, size |-> n, addr |-> 0,
                              ret |-> o.ret, zone |-> o.zone,
                              out |-> IF backend = "DefaultMemoryBackend"
                                      THEN DefaultAllocSlab(o.ret)
                                      ELSE SlabInfoCacheAllocSlab(o.ret)]
    /\ UNCHANGED <<debug_assertions, DLMALLOC_ALLOCATOR, memory_regions, lists,
                   SLAB_INFO_PTRS, high_allocator_metadata>>
    /\ UNCHANGED in_calls

\* free_slab(slab_ptr, slab_size, page_size) of either backend, slab_ptr a
\* pointer alloc_slab returned
FreeSlab(backend, slab_ptr, n) ==
    /\ pc = "ready"
    /\ calls < MaxCalls
    /\ calls' = calls + 1
    /\ LET phys_addr == VirtAddrFromCpmmToPhysAddr(slab_ptr)
           fault == IF SlabSizeFault(n) # "" THEN SlabSizeFault(n)
                    ELSE FreeFault(phys_addr)
           z == GetZoneAllocatorByAddr(phys_addr)
       IN  /\ last' = [op |-> "free_slab", backend |-> backend,
                       zones |-> <<>>, size |-> n, addr |-> phys_addr,
                       ret |-> 0, zone |-> z, ptr |-> slab_ptr]
           /\ IF fault = ""
              THEN /\ zones' = [zones EXCEPT ![z] = BuddyFree(@, phys_addr)]
                   /\ UNCHANGED <<pc, fatal>>
              ELSE /\ Halt(fault)
                   /\ UNCHANGED zones
    /\ UNCHANGED <<debug_assertions, DLMALLOC_ALLOCATOR, memory_regions, lists,
                   SLAB_INFO_PTRS, high_allocator_metadata>>
    /\ UNCHANGED in_calls

\* The panic DlmallocSystemAllocator::alloc and free end in for a size, "" if
\* they have none: the size is checked in every build
DlmallocSizeFault(n) ==
    IF ~ValidSize(n)
    THEN "not implemented: memory size not suitable for buddy allocator"
    ELSE ""

\* general_purpose_allocator::init, the last call of memory_management::init:
\* the PMM's init has returned (pc = "pmm"), now the heap's Once is set
GeneralPurposeAllocatorInit ==
    /\ pc = "pmm"
    /\ pc' = "ready"
    /\ DLMALLOC_ALLOCATOR' = TRUE
    /\ UNCHANGED <<debug_assertions, fatal, memory_regions, lists,
                   SLAB_INFO_PTRS, high_allocator_metadata, zones, last, calls>>
    /\ UNCHANGED in_calls

\* The layouts callers pass: [size, align] in bytes, align a power of two
Layouts ==
    { [size |-> 0, align |-> a] : a \in {8, PAGE_SIZE} }
    \cup { [size |-> 64, align |-> 8] }

\* layout.align() as *mut u8: the address align, as [cpmm, pg, off]
DanglingPtr(align) ==
    [cpmm |-> 0, pg |-> align \div PAGE_SIZE, off |-> align % PAGE_SIZE]

\* allocate and deallocate that pass a zero-size layout on to dlmalloc
ZeroSizeLayout_PassedOn(layout) == FALSE

\* layout.size() == 0
ZeroSizeLayout(layout) == layout.size = 0

\* The panic allocate and deallocate end in before they reach dlmalloc, "" if
\* they have none
HeapFault(layout) ==
    IF layout.align = 0 THEN "Invalid align requested, maybe bug"
    ELSE IF ZeroSizeLayout(layout) THEN ""
    ELSE IF ~DLMALLOC_ALLOCATOR THEN "dlmalloc allocator not set"
    ELSE ""

\* GeneralPurposeAllocator::allocate(layout); when the size is not zero the
\* heap has no free chunk and asks its system allocator for n pages
Allocate(layout, n) ==
    /\ pc \in {"boot", "pmm", "ready"}
    /\ calls < MaxCalls
    /\ calls' = calls + 1
    /\ LET call == [op |-> "allocate", zones |-> HeapZones, size |-> n,
                    addr |-> 0, layout |-> layout]
           fault == IF HeapFault(layout) # "" THEN HeapFault(layout)
                    ELSE IF ZeroSizeLayout(layout) THEN ""
                    ELSE DlmallocSizeFault(n)
       IN  IF fault # ""
           THEN /\ Halt(fault)
                /\ last' = call @@
                       [ret |-> 0, zone |-> "none",
                        segment |-> <<NullPtr, 0, 0>>,
                        out |-> GeneralPurposeAllocate(NullPtr, n)]
                /\ UNCHANGED zones
           ELSE IF ZeroSizeLayout(layout)
           THEN /\ last' = call @@
                       [ret |-> 0, zone |-> "none",
                        segment |-> <<NullPtr, 0, 0>>,
                        out |-> [ok |-> TRUE, err |-> "",
                                 ptr |-> DanglingPtr(layout.align),
                                 len |-> 0]]
                /\ UNCHANGED <<pc, fatal, zones>>
           ELSE /\ UNCHANGED <<pc, fatal>>
                /\ \E o \in AllocOutcomes(HeapZones, n) :
                      LET segment == DlmallocSystemAlloc(o.ret, n)
                      IN  /\ zones' = o.zones
                          /\ last' = call @@
                                 [ret |-> o.ret, zone |-> o.zone,
                                  segment |-> segment,
                                  out |-> GeneralPurposeAllocate(
                                              DlmallocMalloc(segment), n)]
    /\ UNCHANGED <<debug_assertions, DLMALLOC_ALLOCATOR, memory_regions, lists,
                   SLAB_INFO_PTRS, high_allocator_metadata>>
    /\ UNCHANGED in_calls

\* GeneralPurposeAllocator::deallocate(ptr, layout); ptr is a NonNull<u8>,
\* aligned whatever its address.  When the size is not zero dlmalloc keeps
\* the chunk (released = 0) or gives the segment at the physical address
\* released back to its system allocator.
Deallocate(layout, released) ==
    /\ pc \in {"boot", "pmm", "ready"}
    /\ calls < MaxCalls
    /\ calls' = calls + 1
    /\ LET fault == IF layout.align = 0 THEN "Invalid deallocate parameters"
                    ELSE HeapFault(layout)
           z == IF released = 0 THEN "none"
                ELSE GetZoneAllocatorByAddr(released)
       IN  /\ last' = [op |-> "deallocate", zones |-> <<>>, size |-> 0,
                       addr |-> released, ret |-> 0, zone |-> z,
                       layout |-> layout]
           /\ IF fault # ""
              THEN /\ Halt(fault)
                   /\ UNCHANGED zones
              ELSE /\ UNCHANGED <<pc, fatal>>
                   /\ IF ZeroSizeLayout(layout) \/ released = 0
                      THEN UNCHANGED zones
                      ELSE zones' = [zones EXCEPT ![z] = BuddyFree(@, released)]
    /\ UNCHANGED <<debug_assertions, DLMALLOC_ALLOCATOR, memory_regions, lists,
                   SLAB_INFO_PTRS, high_allocator_metadata>>
    /\ UNCHANGED in_calls

\* The blocks now allocated
AllocatedBlocks == UNION { zones[z].blocks : z \in MemoryZoneEnum }

\* DlmallocSystemAllocator::free(ptr, size), ptr a pointer its alloc returned
DlmallocSystemFree(ptr, n) ==
    /\ pc = "ready"
    /\ calls < MaxCalls
    /\ calls' = calls + 1
    /\ LET phys_addr == VirtAddrFromCpmmToPhysAddr(ptr)
           fault == IF DlmallocSizeFault(n) # "" THEN DlmallocSizeFault(n)
                    ELSE FreeFault(phys_addr)
           z == GetZoneAllocatorByAddr(phys_addr)
       IN  /\ last' = [op |-> "system_free", zones |-> <<>>, size |-> n,
                       addr |-> phys_addr, ret |-> 0, zone |-> z, ptr |-> ptr]
           /\ IF fault = ""
              THEN /\ zones' = [zones EXCEPT ![z] = BuddyFree(@, phys_addr)]
                   /\ UNCHANGED <<pc, fatal>>
              ELSE /\ Halt(fault)
                   /\ UNCHANGED zones
    /\ UNCHANGED <<debug_assertions, DLMALLOC_ALLOCATOR, memory_regions, lists,
                   SLAB_INFO_PTRS, high_allocator_metadata>>
    /\ UNCHANGED in_calls

\* remap: "if can_move"
RemapMoves(can_move) == can_move

\* The panic DlmallocSystemAllocator::remap ends in, "" if it has none: both
\* sizes are checked in every build, then pmm realloc has its own panics
RemapFault(phys_addr, oldsize, newsize, can_move) ==
    IF ~ValidSize(oldsize)
    THEN "not implemented: oldsize not suitable for buddy allocator"
    ELSE IF ~ValidSize(newsize)
    THEN "not implemented: newsize not suitable for buddy allocator"
    ELSE IF RemapMoves(can_move) THEN ReallocFault(phys_addr, TRUE)
    ELSE ""

\* DlmallocSystemAllocator::remap(ptr, oldsize, newsize, can_move), ptr a
\* pointer its alloc returned
DlmallocSystemRemap(ptr, oldsize, newsize, can_move) ==
    /\ pc = "ready"
    /\ calls < MaxCalls
    /\ calls' = calls + 1
    /\ LET phys_addr == VirtAddrFromCpmmToPhysAddr(ptr)
           fault == RemapFault(phys_addr, oldsize, newsize, can_move)
           z == GetZoneAllocatorByAddr(phys_addr)
           call == [op |-> "remap", zones |-> <<>>, size |-> newsize,
                    oldsize |-> oldsize, addr |-> phys_addr, ptr |-> ptr,
                    can_move |-> can_move]
       IN  IF fault # ""
           THEN /\ Halt(fault)
                /\ last' = call @@ [ret |-> 0, zone |-> "none",
                                    pmm |-> "", out |-> NullPtr]
                /\ UNCHANGED zones
           ELSE /\ UNCHANGED <<pc, fatal>>
                /\ IF RemapMoves(can_move)
                   THEN \E o \in BuddyRealloc(zones[z], phys_addr, newsize) :
                          /\ zones' = [zones EXCEPT ![z] = o.zone]
                          /\ last' = call @@
                                 [ret |-> o.ret, zone |-> z, pmm |-> "realloc",
                                  out |-> IF o.ret = 0 THEN NullPtr
                                          ELSE PhysAddrToCpmmVirtAddr(o.ret)]
                   ELSE /\ last' = call @@ [ret |-> 0, zone |-> "none",
                                            pmm |-> "", out |-> NullPtr]
                        /\ UNCHANGED zones
    /\ UNCHANGED <<debug_assertions, DLMALLOC_ALLOCATOR, memory_regions, lists,
                   SLAB_INFO_PTRS, high_allocator_metadata>>
    /\ UNCHANGED in_calls

----------------------------------------------------------------------------
Next ==
    \/ \E map \in MemoryMaps : CollectUsableRegions(map)
    \/ InitSlabInfoPtrsArray
    \/ InitIsaDmaAllocator
    \/ InitDma32Allocator
    \/ InitHighAllocator
    \/ InitChecks
    \/ \E zs \in ZoneLists, n \in AllocSizes \cup InvalidSizes : Alloc(zs, n)
    \/ \E a \in AllocatedAddrs \cup ForeignAddrs : Free(a)
    \/ \E a \in AllocatedAddrs \cup ForeignAddrs, n \in {1, 2},
          ignore_data \in BOOLEAN : Realloc(a, n, ignore_data)
    \/ \E backend \in MemoryBackends, n \in AllocSizes \cup InvalidSizes :
          AllocSlab(backend, n)
    \/ \E backend \in MemoryBackends, b \in AllocatedBlocks :
        \E n \in {b.size} \cup InvalidSizes :
          FreeSlab(backend, PhysAddrToCpmmVirtAddr(b.addr), n)
    \/ GeneralPurposeAllocatorInit
    \/ \E layout \in Layouts :
        \E n \in IF layout.size = 0 THEN {0} ELSE AllocSizes \cup InvalidSizes :
          Allocate(layout, n)
    \/ \E layout \in Layouts :
        \E released \in IF layout.size = 0 THEN {0} ELSE {0} \cup AllocatedAddrs :
          Deallocate(layout, released)
    \/ \E b \in AllocatedBlocks :
        \E n \in {b.size} \cup InvalidSizes :
          DlmallocSystemFree(PhysAddrToCpmmVirtAddr(b.addr), n)
    \/ \E b \in AllocatedBlocks :
        \E oldsize \in {b.size, 3}, newsize \in {1, 2, 3},
           can_move \in BOOLEAN :
          DlmallocSystemRemap(PhysAddrToCpmmVirtAddr(b.addr), oldsize,
                              newsize, can_move)

Spec == Init /\ [][Next]_vars

----------------------------------------------------------------------------
\* alloc and free statement by statement, called from several execution
\* contexts at once. A context spins in lock() until the zone's Mutex is
\* free; malloc and free of the buddy allocator run under that Mutex, malloc
\* in two steps: it finds a free block, then takes it.

\* Bounds of the interleaved calls
ConcSizes == {1, 2}

\* 0xFF8000..0xFFC000 (ISA DMA) and 0x1004000..0x1008000 (DMA32)
ConcMaps ==
    { << Entry("Usable", 4088, 0, 4092, 0), Entry("Usable", 4100, 0, 4104, 0) >> }

\* The zones a context asks, in its order
ZonesOf(t) == IF t = "DlmallocSystemAllocator" THEN HeapZones ELSE SlabZones

\* lock() that returns although another context holds the Mutex
CanLock_NotExclusive(z) == TRUE

\* lock() returns only when no context holds the zone's Mutex
CanLock(z) == zone_lock[z] = "none"

\* The generic caches of the slab allocator a context may work on
GenericCaches == {"GENERIC_CACHE16", "GENERIC_CACHE32"}

\* The Mutexes other than the zones'
OuterMutexes == GenericCaches \cup {"SLAB_INFO_CACHE", "DLMALLOC_ALLOCATOR"}

\* OuterLocks of a slab-info path that locks the SlabInfo cache first
OuterLocks_SlabInfoCacheFirst(t, cache) ==
    IF t = "DefaultMemoryBackend" THEN <<cache>>
    ELSE IF t = "SlabInfoCacheMemoryBackend" THEN <<"SLAB_INFO_CACHE", cache>>
    ELSE <<"DLMALLOC_ALLOCATOR">>

\* The Mutexes a context's call holds when it reaches the PMM, in the order
\* it takes them: alloc_slab and free_slab run under the cache's Mutex,
\* alloc_slab_info locks SLAB_INFO_CACHE under it, and the heap's system
\* allocator runs under DLMALLOC_ALLOCATOR's
OuterLocks(t, cache) ==
    IF t = "DefaultMemoryBackend" THEN <<cache>>
    ELSE IF t = "SlabInfoCacheMemoryBackend" THEN <<cache, "SLAB_INFO_CACHE">>
    ELSE <<"DLMALLOC_ALLOCATOR">>

\* The contexts that hold the Mutex m
Holders(m) ==
    { t \in Contexts : \E k \in 1..Len(contexts[t].locks) : contexts[t].locks[k] = m }

\* A context calls into a cache or the heap for an allocation that will need
\* n pages of the PMM
CallAlloc(t, n, cache) ==
    /\ pc = "ready"
    /\ contexts[t].pc = "idle"
    /\ calls < MaxCalls
    /\ calls' = calls + 1
    /\ contexts' = [contexts EXCEPT ![t] =
                       [@ EXCEPT !.pc = "enter", !.op = "alloc", !.i = 1,
                                 !.n = n, !.ret = 0,
                                 !.want = OuterLocks(t, cache)]]
    /\ UNCHANGED <<debug_assertions, DLMALLOC_ALLOCATOR, pc, fatal,
                   memory_regions, lists, SLAB_INFO_PTRS,
                   high_allocator_metadata, zones, last, zone_lock>>

\* A context calls into a cache or the heap to give back a block it holds
CallFree(t, b, cache) ==
    /\ pc = "ready"
    /\ contexts[t].pc = "idle"
    /\ b \in contexts[t].held
    /\ calls < MaxCalls
    /\ calls' = calls + 1
    /\ contexts' = [contexts EXCEPT ![t] =
                       [@ EXCEPT !.pc = "enter", !.op = "free",
                                 !.pick = b.addr, !.n = b.size,
                                 !.want = OuterLocks(t, cache)]]
    /\ UNCHANGED <<debug_assertions, DLMALLOC_ALLOCATOR, pc, fatal,
                   memory_regions, lists, SLAB_INFO_PTRS,
                   high_allocator_metadata, zones, last, zone_lock>>

\* lock() of the next Mutex on the way to the PMM: it returns when no context
\* holds it; with the last one held the backend calls alloc or free
LockOuter(t) ==
    LET c == contexts[t]
        m == c.want[Len(c.locks) + 1]
    IN  /\ pc = "ready"
        /\ c.pc = "enter"
        /\ Holders(m) = {}
        /\ contexts' = [contexts EXCEPT ![t] =
                           [@ EXCEPT !.locks = Append(@, m),
                                     !.pc = IF Len(c.locks) + 1 < Len(c.want)
                                            THEN "enter"
                                            ELSE IF c.op = "alloc" THEN "zone"
                                            ELSE "free_zone"]]
        /\ UNCHANGED <<debug_assertions, DLMALLOC_ALLOCATOR, pc, fatal,
                       memory_regions, lists, SLAB_INFO_PTRS,
                       high_allocator_metadata, zones, last, calls, zone_lock>>

\* The call returns through its callers: the Mutex taken last is released
UnlockOuter(t) ==
    LET c == contexts[t]
    IN  /\ pc = "ready"
        /\ c.pc = "leave"
        /\ contexts' = [contexts EXCEPT ![t] =
                           [@ EXCEPT !.locks = SubSeq(@, 1, Len(@) - 1),
                                     !.pc = IF Len(c.locks) > 1 THEN "leave"
                                            ELSE "idle",
                                     !.op = IF Len(c.locks) > 1 THEN @
                                            ELSE "none",
                                     !.want = IF Len(c.locks) > 1 THEN @
                                              ELSE <<>>]]
        /\ UNCHANGED <<debug_assertions, DLMALLOC_ALLOCATOR, pc, fatal,
                       memory_regions, lists, SLAB_INFO_PTRS,
                       high_allocator_metadata, zones, last, calls, zone_lock>>

\* A loop over the zone list that stays at its entry
NextEntry_Same(i) == i

\* alloc's for loop goes on to the next entry of the zone list
NextEntry(i) == i + 1

\* The head of alloc's loop: it returns null after the last zone, passes a
\* zone that is not set, and locks a zone that is
NextZone(t) ==
    LET c  == contexts[t]
        zs == ZonesOf(t)
    IN  /\ pc = "ready"
        /\ c.pc = "zone"
        /\ IF c.i > Len(zs)
           THEN /\ contexts' = [contexts EXCEPT ![t] =
                                   [@ EXCEPT !.pc = "leave", !.ret = 0]]
                /\ UNCHANGED zone_lock
           ELSE IF ~zones[zs[c.i]].inited
           THEN /\ contexts' = [contexts EXCEPT ![t].i = NextEntry(@)]
                /\ UNCHANGED zone_lock
           ELSE /\ CanLock(zs[c.i])
                /\ zone_lock' = [zone_lock EXCEPT ![zs[c.i]] = t]
                /\ contexts' = [contexts EXCEPT ![t].pc = "find"]
        /\ UNCHANGED <<debug_assertions, DLMALLOC_ALLOCATOR, pc, fatal,
                       memory_regions, lists, SLAB_INFO_PTRS,
                       high_allocator_metadata, zones, last, calls>>

\* malloc under the lock, first half: no block, and the loop goes on with
\* the Mutex released, or a free block is found
MallocFind(t) ==
    LET c == contexts[t]
        z == ZonesOf(t)[c.i]
    IN  /\ pc = "ready"
        /\ c.pc = "find"
        /\ IF BuddyMallocBlocks(zones[z], c.n) = {}
           THEN /\ contexts' = [contexts EXCEPT ![t] =
                                   [@ EXCEPT !.pc = "zone", !.i = NextEntry(@)]]
                /\ zone_lock' = [zone_lock EXCEPT ![z] = "none"]
           ELSE /\ \E a \in BuddyMallocBlocks(zones[z], c.n) :
                     contexts' = [contexts EXCEPT ![t] =
                                     [@ EXCEPT !.pc = "take", !.pick = a]]
                /\ UNCHANGED zone_lock
        /\ UNCHANGED <<debug_assertions, DLMALLOC_ALLOCATOR, pc, fatal,
                       memory_regions, lists, SLAB_INFO_PTRS,
                       high_allocator_metadata, zones, last, calls>>

\* malloc under the lock, second half: the block is taken, the Mutex released
\* and alloc returns the block's address
MallocTake(t) ==
    LET c == contexts[t]
        z == ZonesOf(t)[c.i]
    IN  /\ pc = "ready"
        /\ c.pc = "take"
        /\ zones' = [zones EXCEPT ![z] = BuddyMalloc(@, c.pick, c.n)]
        /\ zone_lock' = [zone_lock EXCEPT ![z] = "none"]
        /\ contexts' = [contexts EXCEPT ![t] =
                           [@ EXCEPT !.pc = "leave", !.ret = c.pick,
                                     !.held = @ \cup {[addr |-> c.pick,
                                                       size |-> c.n]}]]
        /\ UNCHANGED <<debug_assertions, DLMALLOC_ALLOCATOR, pc, fatal,
                       memory_regions, lists, SLAB_INFO_PTRS,
                       high_allocator_metadata, last, calls>>

\* free looks up the zone of the address and locks it
LockZoneOfBlock(t) ==
    LET c == contexts[t]
        z == GetZoneAllocatorByAddr(c.pick)
    IN  /\ pc = "ready"
        /\ c.pc = "free_zone"
        /\ IF FreeFault(c.pick) = ""
           THEN /\ CanLock(z)
                /\ zone_lock' = [zone_lock EXCEPT ![z] = t]
                /\ contexts' = [contexts EXCEPT ![t].pc = "free"]
                /\ UNCHANGED <<pc, fatal>>
           ELSE /\ Halt(FreeFault(c.pick))
                /\ UNCHANGED <<zone_lock, contexts>>
        /\ UNCHANGED <<debug_assertions, DLMALLOC_ALLOCATOR, memory_regions,
                       lists, SLAB_INFO_PTRS, high_allocator_metadata, zones,
                       last, calls>>

\* free under the lock, then the Mutex is released
FreeBlock(t) ==
    LET c == contexts[t]
        z == GetZoneAllocatorByAddr(c.pick)
    IN  /\ pc = "ready"
        /\ c.pc = "free"
        /\ zones' = [zones EXCEPT ![z] = BuddyFree(@, c.pick)]
        /\ zone_lock' = [zone_lock EXCEPT ![z] = "none"]
        /\ contexts' = [contexts EXCEPT ![t] =
                           [@ EXCEPT !.pc = "leave",
                                     !.held = @ \ {[addr |-> c.pick,
                                                    size |-> c.n]}]]
        /\ UNCHANGED <<debug_assertions, DLMALLOC_ALLOCATOR, pc, fatal,
                       memory_regions, lists, SLAB_INFO_PTRS,
                       high_allocator_metadata, last, calls>>

\* A step of the context t inside a call
ContextStep(t) ==
    \/ LockOuter(t)
    \/ NextZone(t)
    \/ MallocFind(t)
    \/ MallocTake(t)
    \/ LockZoneOfBlock(t)
    \/ FreeBlock(t)
    \/ UnlockOuter(t)

NextConc ==
    \/ \E map \in ConcMaps : CollectUsableRegions(map)
    \/ InitSlabInfoPtrsArray
    \/ InitIsaDmaAllocator
    \/ InitDma32Allocator
    \/ InitHighAllocator
    \/ InitChecks
    \/ GeneralPurposeAllocatorInit
    \/ \E t \in Contexts, n \in ConcSizes, cache \in GenericCaches :
          CallAlloc(t, n, cache)
    \/ \E t \in Contexts, cache \in GenericCaches :
          \E b \in contexts[t].held : CallFree(t, b, cache)
    \/ \E t \in Contexts : LockOuter(t)
    \/ \E t \in Contexts : NextZone(t)
    \/ \E t \in Contexts : MallocFind(t)
    \/ \E t \in Contexts : MallocTake(t)
    \/ \E t \in Contexts : LockZoneOfBlock(t)
    \/ \E t \in Contexts : FreeBlock(t)
    \/ \E t \in Contexts : UnlockOuter(t)

SpecConc == Init /\ [][NextConc]_vars

\* The contexts run on, and a context that spins in lock() gets the Mutex
\* when it is released again and again: a call stops only when it has
\* returned or the kernel has halted
SpecConcFair ==
    SpecConc /\ \A t \in Contexts : SF_vars(ContextStep(t))

----------------------------------------------------------------------------
\* Properties

Range(s) == { s[i] : i \in 1..Len(s) }

\* The pages of a region, of a list
PagesOf(r) == r.first_page..r.last_page

Covered(list) == UNION { PagesOf(list[i]) : i \in 1..Len(list) }

\* init_allocators has returned and no call has been made since
Bootstrapped == pc \in {"allocators", "pmm"} \/ (pc = "ready" /\ calls = 0)

\* C1: when the zones have finished their bootstrap, the free byte count of
\* every initialized zone allocator is the sum of size() over the regions of
\* the zone's usable-region list.
C1_FreeIsSumOfRegionSizes ==
    Bootstrapped =>
        \A z \in MemoryZoneEnum :
            zones[z].inited => BuddyArenaFreeSize(zones[z]) = SumSizes(ZoneList(z))

\* The pages of the slab-info pointer table and of the HIGH allocator's metadata
TablePages == SLAB_INFO_PTRS.addr..(SLAB_INFO_PTRS.addr + SLAB_INFO_PTRS.pages - 1)

MetadataPages ==
    high_allocator_metadata.addr
        ..(high_allocator_metadata.addr + high_allocator_metadata.pages - 1)

\* C2: after init, the block of every non-null address alloc returns lies
\* inside one region of the serving zone's usable-region list, and holds no
\* page of the slab-info pointer table or of the HIGH allocator's metadata.
C2_AllocOnlyUsablePages ==
    (pc = "ready" /\ last.op = "alloc" /\ last.ret # 0) =>
        LET block == last.ret..(last.ret + last.size - 1)
        IN  /\ \E r \in Range(ZoneList(last.zone)) : block \subseteq PagesOf(r)
            /\ block \cap TablePages = {}
            /\ block \cap MetadataPages = {}

\* collect_usable_regions has returned and init has not halted
Collected ==
    pc \in {"collected", "slab_info_ptrs", "isa_dma", "dma32", "allocators",
            "pmm", "ready"}

Overlaps(r, z) == ~(r.last_page < ZoneMin(z) \/ r.first_page > ZoneMax(z))

\* A region of the ALL list that reaches into two zones
Straddles(r) == \E y, z \in MemoryZoneEnum : y # z /\ Overlaps(r, y) /\ Overlaps(r, z)

\* C3: after collect_usable_regions the pages of the three zone lists
\* together are the pages of the ALL list, and no page is in two zone lists.
C3_ZoneListsPartitionAll ==
    pc = "collected" =>
        /\ Covered(ISA_DMA_USABLE_REGIONS) \cup Covered(DMA32_USABLE_REGIONS)
              \cup Covered(HIGH_USABLE_REGIONS) = Covered(USABLE_REGIONS)
        /\ \A y, z \in MemoryZoneEnum :
              y # z => Covered(ZoneList(y)) \cap Covered(ZoneList(z)) = {}

C3_Witness ==
    /\ pc = "collected"
    /\ \E r \in Range(USABLE_REGIONS) : Straddles(r)
    /\ \E r \in Range(USABLE_REGIONS) : ~Straddles(r)

\* C4: every region of the ALL list is, as an equal (first_page, last_page)
\* pair, in exactly one zone list, and the ALL list is as long as the three
\* zone lists together (what the checks closing init assert).
C4_EachRegionInOneZoneList ==
    Collected =>
        /\ \A r \in Range(USABLE_REGIONS) : WasFoundNTimes(r) = 1
        /\ Len(USABLE_REGIONS) = Len(ISA_DMA_USABLE_REGIONS)
              + Len(DMA32_USABLE_REGIONS) + Len(HIGH_USABLE_REGIONS)

Clipped(r, z) ==
    Region(IF r.first_page < ZoneMin(z) THEN ZoneMin(z) ELSE r.first_page,
           IF r.last_page > ZoneMax(z) THEN ZoneMax(z) ELSE r.last_page)

AllLists ==
    { USABLE_REGIONS, ISA_DMA_USABLE_REGIONS, DMA32_USABLE_REGIONS,
      HIGH_USABLE_REGIONS }

\* C6: from the end of collection to the end of init each of the four lists
\* is ascending by first_page, its regions do not overlap one another, and
\* every region is at least one page.
C6_ListsSortedDisjoint ==
    Collected =>
        \A list \in AllLists :
            /\ IsSortedBy(list, FirstPageKey)
            /\ \A i, j \in 1..Len(list) :
                  i < j => list[i].last_page < list[j].first_page
            /\ \A i \in 1..Len(list) : RawSize(list[i]) >= 1

\* C7: in every state from collection on, every region of every list has
\* first_page <= last_page (both are page numbers, so page aligned), and
\* every zone-list region lies inside its zone's bounds.
C7_RegionsWellFormedInZone ==
    Collected =>
        /\ \A list \in AllLists : \A r \in Range(list) : r.first_page <= r.last_page
        /\ \A z \in MemoryZoneEnum : \A r \in Range(ZoneList(z)) :
              ZoneMin(z) <= r.first_page /\ r.last_page <= ZoneMax(z)

\* A usable entry inside the valid physical range
\* (start >= 0x100000, end <= 0xFF_FFFF_F000)
UsableInRange(e) ==
    /\ e.kind = "Usable"
    /\ e.start.pg >= ISA_DMA_ZONE_MIN_FIRST_PAGE_ADDR
    /\ \/ e.end.pg < HIGH_ZONE_MAX_LAST_PAGE_ADDR
       \/ (e.end.pg = HIGH_ZONE_MAX_LAST_PAGE_ADDR /\ e.end.off = 0)

\* ceil_to_page(start)
CeilOfStart(e) == IF e.start.off = 0 THEN e.start.pg ELSE e.start.pg + 1

\* floor_to_page(end - 1)
FloorOfEndMinusOne(e) == IF e.end.off = 0 THEN e.end.pg - 1 ELSE e.end.pg

\* floor_to_page(end - PAGE_SIZE): the last page that lies wholly below end
FloorOfEndMinusPage(e) == e.end.pg - 1

Count(list, r) == Cardinality({ i \in 1..Len(list) : list[i] = r })

\* The ALL list holds, for each usable entry in range, the region
\* first_page(e)..last_page(e) unless last_page(e) <= first_page(e), and
\* nothing else
CollectedAs(first_page(_), last_page(_)) ==
    LET kept == SelectSeq(memory_regions,
                          LAMBDA e : UsableInRange(e) /\ ~(last_page(e) <= first_page(e)))
        made == [i \in 1..Len(kept) |-> Region(first_page(kept[i]), last_page(kept[i]))]
    IN  \A r \in Range(made) \cup Range(USABLE_REGIONS) :
            Count(made, r) = Count(USABLE_REGIONS, r)

\* C8 as claimed: first_page = ceil_to_page(start), last_page =
\* floor_to_page(end - 1), the entry discarded exactly when
\* last_page <= first_page, for aligned and unaligned ends alike.
C8_LastPageIsFloorOfEndMinusOne ==
    pc = "collected" => CollectedAs(CeilOfStart, FloorOfEndMinusOne)

\* C8 amended: first_page = ceil_to_page(start), last_page =
\* floor_to_page(end - PAGE_SIZE), the entry discarded exactly when
\* last_page <= first_page.
C8_LastPageIsFloorOfEndMinusPage ==
    pc = "collected" => CollectedAs(CeilOfStart, FloorOfEndMinusPage)

C8_Witness ==
    /\ pc = "collected"
    /\ \E e \in Range(memory_regions) :
          /\ UsableInRange(e) /\ e.end.off # 0
          /\ Region(CeilOfStart(e), FloorOfEndMinusPage(e)) \in Range(USABLE_REGIONS)
    /\ \E e \in Range(memory_regions) :
          /\ UsableInRange(e) /\ e.end.off # 0
          /\ FloorOfEndMinusPage(e) = CeilOfStart(e)

\* A step that is a call of alloc
AllocCall == calls' = calls + 1 /\ last'.op = "alloc" /\ ValidSize(last'.size)

\* C9: alloc returns the block of the first listed zone that is initialized
\* and can satisfy the request: the address lies in that zone's range and
\* the block was free in that zone's allocator.
C9_FirstAbleZoneServes ==
    [][ AllocCall =>
          \A i \in 1..Len(last'.zones) :
              ( /\ CanServe(last'.zones[i], last'.size)
                /\ \A j \in 1..(i - 1) : ~CanServe(last'.zones[j], last'.size) )
              => /\ last'.ret # 0
                 /\ last'.zone = last'.zones[i]
                 /\ InZone(last'.ret, last'.zones[i])
                 /\ last'.ret \in BuddyMallocBlocks(zones[last'.zones[i]], last'.size)
      ]_vars

\* alloc([A, B], size) served by B while A is initialized and exhausted
C9_Witness ==
    /\ pc = "ready" /\ last.op = "alloc" /\ last.ret # 0
    /\ Len(last.zones) = 2
    /\ last.zones[1] # last.zones[2]
    /\ zones[last.zones[1]].inited
    /\ InZone(last.ret, last.zones[2])

\* C10: for a valid size alloc returns null exactly when every listed zone
\* is uninitialized or cannot satisfy the request; it does not panic, and an
\* address it returns is not 0.
C10_NullIffNoZoneAble ==
    [][ AllocCall =>
          /\ (last'.ret = 0) <=>
                \A i \in 1..Len(last'.zones) : ~CanServe(last'.zones[i], last'.size)
          /\ pc' = pc
          /\ fatal' = ""
      ]_vars

\* null from a list that names an initialized zone, after init
C10_Witness ==
    /\ pc = "ready" /\ last.op = "alloc" /\ last.ret = 0
    /\ \E i \in 1..Len(last.zones) : zones[last.zones[i]].inited
    /\ \E i \in 1..Len(last.zones) : ~zones[last.zones[i]].inited

\* A step that is a call of free with the address of an allocated block
FreeCall ==
    calls' = calls + 1 /\ last'.op = "free" /\ last'.addr \in AllocatedAddrs

FreePages(z) == BuddyArenaFreeSize(zones[z])

\* C11: a successful alloc takes exactly the block's size from the serving
\* zone's free count and nothing from the others; free of the returned
\* address right after it gives exactly that back, so every zone has the
\* free count it had before the pair, and the request can be served again.
C11_AllocFreeRoundTrip ==
    [][ /\ (AllocCall /\ last'.ret # 0) =>
              \A z \in MemoryZoneEnum :
                  FreePages(z)' = FreePages(z)
                                    - (IF z = last'.zone THEN last'.size ELSE 0)
        /\ (FreeCall /\ last.op = "alloc" /\ ValidSize(last.size)
               /\ last.ret # 0 /\ last'.addr = last.ret) =>
              /\ \A z \in MemoryZoneEnum :
                    FreePages(z)' = FreePages(z)
                                      + (IF z = last.zone THEN last.size ELSE 0)
              /\ pc' = pc
              /\ \E i \in 1..Len(last.zones) :
                    /\ zones'[last.zones[i]].inited
                    /\ BuddyMallocBlocks(zones'[last.zones[i]], last.size) # {}
      ]_vars

\* alloc and then free of the block it returned, nothing left allocated
C11_Witness ==
    /\ pc = "ready" /\ last.op = "free" /\ calls = 2
    /\ AllocatedAddrs = {}
    /\ \E z \in MemoryZoneEnum : FreePages(z) > 0

\* A step that is a call of realloc in the implemented (data-discarding) mode
\* with the address of an allocated block
ReallocCall ==
    /\ calls' = calls + 1 /\ last'.op = "realloc" /\ last'.ignore_data
    /\ last'.addr \in AllocatedAddrs

\* C12: free and realloc take the zone whose numeric range holds the
\* address; every block alloc returned lies in the range of the zone that
\* served it; the call changes no other zone allocator and no region list.
C12_ZoneByAddressRange ==
    /\ [](\A z \in MemoryZoneEnum : \A blk \in zones[z].blocks :
            /\ ZoneMin(z) <= blk.addr
            /\ blk.addr + blk.size - 1 <= ZoneMax(z))
    /\ [][ (FreeCall \/ ReallocCall) =>
             /\ ZoneMin(last'.zone) <= last'.addr
             /\ last'.addr <= ZoneMax(last'.zone)
             /\ \E blk \in zones[last'.zone].blocks : blk.addr = last'.addr
             /\ \A y \in MemoryZoneEnum \ {last'.zone} : zones'[y] = zones[y]
             /\ FreeCall =>
                   /\ last'.addr \notin { blk.addr : blk \in zones'[last'.zone].blocks }
                   /\ pc' = pc
             /\ UNCHANGED <<lists, SLAB_INFO_PTRS, high_allocator_metadata>>
         ]_vars

\* a block of one zone freed while another zone is initialized too
C12_Witness ==
    /\ pc = "ready" /\ last.op = "free"
    /\ \E y \in MemoryZoneEnum \ {last.zone} : zones[y].inited /\ FreePages(y) > 0

\* The step of init_allocators that bootstraps the HIGH zone
HighBootstrapStep ==
    pc = "dma32" /\ pc' = "allocators" /\ HIGH_USABLE_REGIONS # <<>>

\* C14: the HIGH bootstrap advances first_page of exactly one DMA32 region,
\* the first one at least a page larger than the metadata, by the metadata's
\* page count; the region of the ALL list it was clipped from gets the same
\* first_page; every other region stays; the donated pages are not free in
\* the DMA32 allocator.
C14_MetadataDonorConsistent ==
    [][ HighBootstrapStep =>
          LET m     == high_allocator_metadata'.pages
              dma32 == DMA32_USABLE_REGIONS
              all   == USABLE_REGIONS
          IN  /\ m = HighMetadataPages(RangeSize(HIGH_USABLE_REGIONS))
              /\ \E i \in 1..Len(dma32) :
                    /\ RawSize(dma32[i]) >= m + 1
                    /\ \A k \in 1..(i - 1) : RawSize(dma32[k]) < m + 1
                    /\ high_allocator_metadata'.addr = dma32[i].first_page
                    /\ DMA32_USABLE_REGIONS' =
                          [dma32 EXCEPT ![i].first_page = @ + m]
                    /\ \E j \in 1..Len(all) :
                          /\ Overlaps(all[j], "Dma32")
                          /\ Clipped(all[j], "Dma32") = dma32[i]
                          /\ USABLE_REGIONS' =
                                [all EXCEPT ![j].first_page = dma32[i].first_page + m]
                    /\ (dma32[i].first_page..(dma32[i].first_page + m - 1))
                          \cap zones'["Dma32"].free = {}
              /\ UNCHANGED <<ISA_DMA_USABLE_REGIONS, HIGH_USABLE_REGIONS>>
      ]_vars

\* The pages the HIGH bootstrap step takes for the metadata
DonatedPages ==
    high_allocator_metadata'.addr..
        (high_allocator_metadata'.addr + high_allocator_metadata'.pages - 1)

OnlyIsaDmaCanDonate ==
    /\ pc = "dma32"
    /\ HIGH_USABLE_REGIONS # <<>>
    /\ RangeSize(HIGH_USABLE_REGIONS) >= 1
    /\ LET m == HighMetadataPages(RangeSize(HIGH_USABLE_REGIONS))
       IN  /\ \A i \in 1..Len(DMA32_USABLE_REGIONS) :
                 RawSize(DMA32_USABLE_REGIONS[i]) < m + 1
           /\ \E i \in 1..Len(ISA_DMA_USABLE_REGIONS) :
                 RawSize(ISA_DMA_USABLE_REGIONS[i]) >= m + 1

\* C16: when the HIGH zone has regions and no DMA32 region can donate the
\* metadata, the bootstrap carves it from an ISA DMA region that is large
\* enough and the HIGH zone is initialized.
C16_IsaDmaFallback ==
    [][ OnlyIsaDmaCanDonate =>
          /\ pc' = "allocators"
          /\ zones'["High"].inited
          /\ \E i \in 1..Len(ISA_DMA_USABLE_REGIONS) :
                /\ high_allocator_metadata'.addr =
                       ISA_DMA_USABLE_REGIONS[i].first_page
                /\ ISA_DMA_USABLE_REGIONS'[i].first_page =
                       ISA_DMA_USABLE_REGIONS[i].first_page
                          + high_allocator_metadata'.pages
      ]_vars

\* The step of init that builds the slab-info pointer table
SlabInfoPtrsStep == pc = "collected" /\ pc' = "slab_info_ptrs"

\* C17: the slot index of every page between the first and the last usable
\* page collected at boot is smaller than the number of slots of the table
\* init_slab_info_ptrs_array builds (the index grows with the address, so
\* the two ends and the usable pages stand for the range), and so is the
\* index of every page of a block the PMM handed out.
C17_SlabInfoIndexInBounds ==
    /\ [][ SlabInfoPtrsStep =>
             \A p \in { USABLE_REGIONS[1].first_page,
                        USABLE_REGIONS[Len(USABLE_REGIONS)].last_page }
                        \cup Covered(USABLE_REGIONS) :
                SlabInfoPtrIndex(PhysAddrToCpmmVirtAddr(p)) < SLAB_INFO_PTRS'.len
         ]_vars
    /\ [](\A z \in MemoryZoneEnum : \A blk \in zones[z].blocks :
            \A p \in blk.addr..(blk.addr + blk.size - 1) :
                SlabInfoPtrIndex(PhysAddrToCpmmVirtAddr(p)) < SLAB_INFO_PTRS.len)

\* C18: when init completes a zone is initialized exactly when its list of
\* usable regions is not empty; a zone once published keeps its arena and
\* stays initialized, and after init no zone changes from uninitialized to
\* initialized; alloc leaves an uninitialized zone of its list untouched,
\* never returns a block of it and never halts.
C18_ZoneInitedIffListNonEmpty ==
    /\ [](pc = "ready" =>
            \A z \in MemoryZoneEnum : zones[z].inited <=> ZoneList(z) # <<>>)
    /\ [][ \A z \in MemoryZoneEnum :
              /\ zones[z].inited =>
                    /\ zones'[z].inited
                    /\ zones'[z].main = zones[z].main
                    /\ zones'[z].size = zones[z].size
              /\ pc = "ready" => (zones'[z].inited <=> zones[z].inited)
         ]_vars
    /\ [][ AllocCall =>
              /\ pc' = pc
              /\ fatal' = fatal
              /\ \A i \in 1..Len(last'.zones) :
                    ~zones[last'.zones[i]].inited =>
                        /\ zones'[last'.zones[i]] = zones[last'.zones[i]]
                        /\ last'.zone # last'.zones[i]
         ]_vars

C18_Witness ==
    /\ pc = "ready"
    /\ last.op = "alloc"
    /\ last.ret # 0
    /\ Len(last.zones) >= 2
    /\ ~zones[last.zones[1]].inited
    /\ ZoneList(last.zones[1]) = <<>>
    /\ last.zone = last.zones[2]
    /\ ZoneList(last.zone) # <<>>

\* C19: when no usable region is retained from the memory map the only step
\* init takes is a fatal halt; init is never left with all three zones
\* uninitialized: in Ready at least one zone is initialized.
C19_NoUsableMemoryIsFatal ==
    /\ [][ (pc = "collected" /\ USABLE_REGIONS = <<>>) =>
              (pc' = "halted" /\ fatal' # "") ]_vars
    /\ [](pc \in {"slab_info_ptrs", "isa_dma", "dma32", "allocators", "pmm",
                  "ready"}
            => USABLE_REGIONS # <<>>)
    /\ [](pc \in {"allocators", "pmm", "ready"}
            => \E z \in MemoryZoneEnum : zones[z].inited)

C19_Witness ==
    /\ pc = "halted"
    /\ USABLE_REGIONS = <<>>
    /\ fatal = "init_slab_info_ptrs_array: unwrap on None"
    /\ \A z \in MemoryZoneEnum : ~zones[z].inited

AllocSlabCall ==
    calls' = calls + 1 /\ last'.op = "alloc_slab" /\ ValidSize(last'.size)

AllocateCall ==
    /\ calls' = calls + 1 /\ last'.op = "allocate" /\ ValidSize(last'.size)
    /\ last'.layout.size # 0 /\ DLMALLOC_ALLOCATOR

\* C20: a null from pmm alloc goes up as the caller's own failure, never as
\* a panic: alloc_slab of both backends returns the null pointer (not the
\* mapping's mirror of address 0), the heap's system alloc returns
\* (null, 0, 0) and allocate returns Err(AllocError); a block that was found
\* goes up as its address in the mapping.
C20_ExhaustionPropagated ==
    /\ [][ AllocSlabCall =>
              /\ pc' = pc /\ fatal' = fatal
              /\ last'.ret = 0 <=> ServingEntries(SlabZones, last'.size) = {}
              /\ last'.ret = 0 =>
                    /\ last'.out = NullPtr
                    /\ last'.out # PhysAddrToCpmmVirtAddr(0)
                    /\ zones' = zones
              /\ last'.ret # 0 =>
                    /\ last'.out # NullPtr
                    /\ VirtAddrFromCpmmToPhysAddr(last'.out) = last'.ret
         ]_vars
    /\ [][ AllocateCall =>
              /\ pc' = pc /\ fatal' = fatal
              /\ last'.ret = 0 <=> ServingEntries(HeapZones, last'.size) = {}
              /\ last'.ret = 0 =>
                    /\ last'.segment = <<NullPtr, 0, 0>>
                    /\ ~last'.out.ok /\ last'.out.err = "AllocError"
                    /\ zones' = zones
              /\ last'.ret # 0 =>
                    /\ last'.out.ok
                    /\ VirtAddrFromCpmmToPhysAddr(last'.out.ptr) = last'.ret
         ]_vars

C20_Witness ==
    /\ pc = "ready"
    /\ calls = 2
    /\ last.op = "alloc_slab"
    /\ last.backend = "DefaultMemoryBackend"
    /\ last.ret = 0
    /\ last.out = NullPtr
    /\ \E z \in MemoryZoneEnum : zones[z].inited /\ zones[z].blocks # {}

\* The pages of a block
BlockPages(b) == b.addr..(b.addr + b.size - 1)

\* The slots of the slab-info pointer table a block's pages index
BlockSlots(b) ==
    { SlabInfoPtrIndex(PhysAddrToCpmmVirtAddr(p)) : p \in BlockPages(b) }

\* C13: whatever the interleaving of the contexts' alloc and free calls, two
\* blocks held at the same time share no page and no slot of the slab-info
\* pointer table, a held block is allocated in its zone's allocator with
\* none of its pages free, and a context inside malloc or free holds the
\* Mutex of the zone it works on.
C13_NoPageOwnedTwice ==
    /\ [](\A t, u \in Contexts :
            \A b \in contexts[t].held : \A d \in contexts[u].held :
                (t # u \/ b # d) =>
                    /\ BlockPages(b) \cap BlockPages(d) = {}
                    /\ BlockSlots(b) \cap BlockSlots(d) = {})
    /\ [](\A t \in Contexts : \A b \in contexts[t].held :
            LET z == GetZoneAllocatorByAddr(b.addr)
            IN  /\ b \in zones[z].blocks
                /\ BlockPages(b) \cap zones[z].free = {})
    /\ [](\A t \in Contexts :
            /\ contexts[t].pc \in {"find", "take"} =>
                  zone_lock[ZonesOf(t)[contexts[t].i]] = t
            /\ contexts[t].pc = "free" =>
                  zone_lock[GetZoneAllocatorByAddr(contexts[t].pick)] = t)

C13_Witness ==
    \E t, u \in Contexts :
        /\ t # u
        /\ \E b \in contexts[t].held : \E d \in contexts[u].held :
              GetZoneAllocatorByAddr(b.addr) = GetZoneAllocatorByAddr(d.addr)

\* A step in which pmm alloc ran: called directly, by a slab backend or by
\* the heap
AnyAllocCall == AllocCall \/ AllocSlabCall \/ AllocateCall

\* C28: alloc changes the allocator of at most one zone, the one that served
\* the request, and only by the block it returns: the zones tried before it,
\* the zones after it, the zones not in the list and the four region lists
\* stay as they were; a call that returns null changes no zone.
C28_AllocChangesOnlyServingZone ==
    [][ AnyAllocCall =>
          /\ UNCHANGED <<lists, SLAB_INFO_PTRS, high_allocator_metadata>>
          /\ last'.ret = 0 => zones' = zones
          /\ last'.ret # 0 =>
                /\ \E i \in 1..Len(last'.zones) : last'.zones[i] = last'.zone
                /\ \A z \in MemoryZoneEnum \ {last'.zone} : zones'[z] = zones[z]
                /\ zones'[last'.zone] =
                      BuddyMalloc(zones[last'.zone], last'.ret, last'.size)
      ]_vars

C28_Witness ==
    /\ pc = "ready"
    /\ last.op = "allocate"
    /\ last.ret # 0
    /\ last.zone = last.zones[3]
    /\ zones[last.zones[2]].inited
    /\ FreePages(last.zones[2]) > 0

\* Pages of the slab-info pointer table for the collected regions
RequiredTablePages ==
    SlabInfoPtrsPages(USABLE_REGIONS[Len(USABLE_REGIONS)].last_page + 1
                        - USABLE_REGIONS[1].first_page)

\* list is changed in entry j alone, whose first_page moves forward by m pages
AdvancedAt(list, list2, j, m) ==
    /\ j \in 1..Len(list)
    /\ list2 = [list EXCEPT ![j].first_page = @ + m]

\* C29: the table's pages come from the front of the highest-addressed
\* usable region at least one page larger than the table: its first_page
\* moves forward by the table's size in the ALL list and in the one zone list
\* that holds the region, all other regions of all lists stay, the region
\* keeps a page; with no region large enough init halts.
C29_TableFromHighestLargeRegion ==
    [][ (pc = "collected" /\ USABLE_REGIONS # <<>>) =>
          LET all == USABLE_REGIONS
              m   == RequiredTablePages
              big == { i \in 1..Len(all) : RawSize(all[i]) >= m + 1 }
          IN  IF big = {}
              THEN pc' = "halted"
              ELSE LET i == CHOOSE k \in big :
                              \A j \in big : all[j].first_page <= all[k].first_page
                   IN  /\ pc' = "slab_info_ptrs"
                       /\ SLAB_INFO_PTRS'.addr = all[i].first_page
                       /\ SLAB_INFO_PTRS'.pages = m
                       /\ \E k \in big :
                             /\ all[k] = all[i]
                             /\ AdvancedAt(all, USABLE_REGIONS', k, m)
                             /\ RawSize(USABLE_REGIONS'[k]) >= 1
                       /\ \E z \in MemoryZoneEnum :
                             /\ \E j \in 1..Len(ZoneList(z)) :
                                   /\ ZoneList(z)[j] = all[i]
                                   /\ AdvancedAt(ZoneList(z), ZoneList(z)', j, m)
                             /\ \A y \in MemoryZoneEnum \ {z} :
                                   ZoneList(y)' = ZoneList(y)
      ]_vars

\* A step that is a call of free or realloc, with whatever address
FreeOrReallocStep == calls' = calls + 1 /\ last'.op \in {"free", "realloc"}

\* The address lies in none of the three zone ranges or in the range of a
\* zone that was never initialized
ForeignAddress(a) ==
    \/ \A z \in MemoryZoneEnum : ~InZone(a, z)
    \/ \E z \in MemoryZoneEnum : InZone(a, z) /\ ~zones[z].inited

\* C22: free or realloc with an address outside the three zone ranges (null
\* and addresses below 0x100000 among them) or inside the range of a zone
\* that was never initialized halts the kernel and leaves every zone
\* allocator, every lock and every region list as it was.
C22_ForeignAddressIsFatal ==
    [][ (FreeOrReallocStep /\ ForeignAddress(last'.addr)) =>
          /\ pc' = "halted"
          /\ fatal' # ""
          /\ zones' = zones
          /\ UNCHANGED <<lists, zone_lock>>
      ]_vars

C22_Witness ==
    /\ pc = "halted"
    /\ last.op = "free"
    /\ last.addr = HIGH_ZONE_MAX_LAST_PAGE_ADDR + 1
    /\ fatal = "Trying to free invalid address"
    /\ zones["High"].inited

\* C23: realloc with ignore_data = false halts as not implemented whatever
\* the address, before the zone is looked up, with every zone allocator and
\* every lock as it was; a realloc step that changes a zone allocator or
\* returns has ignore_data = true.
C23_DataPreservingReallocUnimplemented ==
    [][ (calls' = calls + 1 /\ last'.op = "realloc") =>
          /\ ~last'.ignore_data =>
                /\ pc' = "halted"
                /\ fatal' = "not implemented: the buddy allocator will not be able to move data"
                /\ last'.zone = "none"
                /\ zones' = zones
                /\ UNCHANGED <<lists, zone_lock>>
          /\ (zones' # zones \/ pc' = "ready") => last'.ignore_data
      ]_vars

C23_Witness ==
    /\ pc = "halted"
    /\ last.op = "realloc"
    /\ ~last.ignore_data
    /\ last.addr = 0
    /\ fatal = "not implemented: the buddy allocator will not be able to move data"

\* A step that is a call of pmm alloc or of the heap system backend's alloc or
\* free with a size that is no power of two of pages
InvalidSizeCall ==
    /\ calls' = calls + 1
    /\ \/ last'.op \in {"alloc", "system_free"}
       \/ last'.op = "allocate" /\ last'.layout.size # 0
    /\ ~ValidSize(last'.size)

\* C21: a request whose size is not a power of two or is smaller than a page
\* is rejected fatally by pmm alloc and by the heap system backend's alloc and
\* free: the call halts, no zone is locked or changed, nothing is returned
C21_InvalidSizeRejected ==
    [][InvalidSizeCall =>
          /\ pc' = "halted"
          /\ zones' = zones
          /\ zone_lock' = zone_lock
          /\ last'.ret = 0]_vars

\* A step that is a call of the heap system backend's remap with
\* can_move = false
RemapInPlaceCall ==
    calls' = calls + 1 /\ last'.op = "remap" /\ ~last'.can_move

\* C25: remap with can_move = false returns null (the kernel runs on),
\* changes no zone allocator and calls no PMM operation
C25_RemapInPlaceReturnsNull ==
    [][RemapInPlaceCall =>
          /\ pc' = pc
          /\ last'.out = NullPtr
          /\ last'.pmm = ""
          /\ zones' = zones]_vars

\* What does hold: remap with can_move = false and both sizes a power of two
\* of pages returns null and the kernel runs on; with a size that is not, it halts the
\* kernel; either way it changes no zone allocator and no lock and calls no
\* PMM operation
RemapInPlaceNullOrFatal ==
    [][RemapInPlaceCall =>
          /\ last'.out = NullPtr
          /\ last'.pmm = ""
          /\ zones' = zones
          /\ zone_lock' = zone_lock
          /\ IF ValidSize(last'.oldsize) /\ ValidSize(last'.size)
             THEN pc' = pc /\ fatal' = fatal
             ELSE pc' = "halted"]_vars

\* remap with can_move = false and valid sizes has returned null for a block
\* that a moving remap could have grown
RemapInPlaceNull ==
    /\ pc = "ready"
    /\ last.op = "remap" /\ ~last.can_move
    /\ ValidSize(last.oldsize) /\ last.size = 2 * last.oldsize
    /\ last.out = NullPtr
    /\ \E z \in MemoryZoneEnum :
          /\ \E blk \in zones[z].blocks : blk.addr = last.addr
          /\ BuddyMallocBlocks(BuddyFree(zones[z], last.addr), last.size) # {}

\* A step that is a call of free_slab with the pointer the alloc_slab call
\* right before it returned
FreeSlabOfAllocSlab ==
    /\ last.op = "alloc_slab" /\ ValidSize(last.size) /\ last.ret # 0
    /\ calls' = calls + 1
    /\ last'.op = "free_slab" /\ last'.ptr = last.out
    /\ ValidSize(last'.size)

\* The addresses of the three zones the translation is looked at for: the
\* two ends of every zone and every page of an allocated block
ZoneAddrs ==
    { ZoneMin(z) : z \in MemoryZoneEnum }
    \cup { ZoneMax(z) : z \in MemoryZoneEnum }
    \cup UNION { BlockPages(b) : b \in AllocatedBlocks }

\* C27: on success alloc_slab returns the physical address plus
\* 0xFFFF_A000_0000_0000; free_slab with that pointer frees in the PMM the
\* physical address alloc returned; physical -> virtual -> physical is the
\* identity inside the three zones and the addition stays within 64 bits.
C27_SlabPointerRoundTrip ==
    /\ [](\A p \in ZoneAddrs :
            /\ ~CpmmAddOverflows(p)
            /\ VirtAddrFromCpmmToPhysAddr(PhysAddrToCpmmVirtAddr(p)) = p)
    /\ [][(AllocSlabCall /\ last'.ret # 0) =>
             /\ last'.ret < PagesPerUnit
             /\ last'.out = VirtAddr(PHYSICAL_MEMORY_MAPPING_OFFSET, last'.ret)]_vars
    /\ [][FreeSlabOfAllocSlab =>
             /\ last'.addr = last.ret
             /\ pc' = pc
             /\ zones' = [zones EXCEPT ![last.zone] = BuddyFree(@, last.ret)]
             /\ last.ret \notin AllocatedAddrs']_vars

\* free_slab has given back the block of the HIGH zone that alloc_slab had
\* returned through its mirror
C27_Witness ==
    /\ pc = "ready"
    /\ last.op = "free_slab" /\ last.zone = "High"
    /\ last.ptr = VirtAddr(PHYSICAL_MEMORY_MAPPING_OFFSET, last.addr)
    /\ last.addr \notin AllocatedAddrs
    /\ calls = 2

\* A step that is a call of allocate or deallocate of the heap
HeapCall == calls' = calls + 1 /\ last'.op \in {"allocate", "deallocate"}

\* Everything but the record of the last call and the call counter
AllButLastCall ==
    <<debug_assertions, pc, fatal, memory_regions, lists, SLAB_INFO_PTRS,
      high_allocator_metadata, zones, DLMALLOC_ALLOCATOR, zone_lock, contexts>>

\* C26: allocate with a zero-size layout returns a zero-length slice at the
\* non-null address equal to the alignment, and deallocate with a zero-size
\* layout returns; neither changes the heap, a lock or the PMM, in every
\* state, before the heap's init as well; a request of non-zero size before
\* that init halts the kernel.
C26_ZeroSizeNeverReachesHeap ==
    /\ [][(HeapCall /\ last'.layout.size = 0) =>
             /\ UNCHANGED AllButLastCall
             /\ last'.op = "allocate" =>
                   /\ last'.out.ok
                   /\ last'.out.len = 0
                   /\ last'.out.ptr.cpmm = 0
                   /\ last'.out.ptr.pg * PAGE_SIZE + last'.out.ptr.off
                          = last'.layout.align
                   /\ last'.layout.align # 0]_vars
    /\ [][(HeapCall /\ last'.layout.size # 0 /\ ~DLMALLOC_ALLOCATOR) =>
             /\ pc' = "halted"
             /\ fatal' = "dlmalloc allocator not set"
             /\ zones' = zones]_vars

\* allocate with a zero-size layout has succeeded before the heap's init,
\* before the PMM's init even
C26_Witness ==
    /\ pc = "boot"
    /\ ~DLMALLOC_ALLOCATOR
    /\ last.op = "allocate" /\ last.layout = [size |-> 0, align |-> PAGE_SIZE]
    /\ last.out.ok /\ last.out.ptr = [cpmm |-> 0, pg |-> 1, off |-> 0]

\* The zones whose Mutex the context t holds
ZoneLocksOf(t) == { z \in MemoryZoneEnum : zone_lock[z] = t }

\* The place of a Mutex in the order cache -> SlabInfo cache -> zone and
\* heap -> zone
LockRank(m) ==
    IF m \in GenericCaches \cup {"DLMALLOC_ALLOCATOR"} THEN 1
    ELSE IF m = "SLAB_INFO_CACHE" THEN 2
    ELSE 3

\* The context t is about to call lock(), or spins in it
WantsLock(t) == contexts[t].pc \in {"enter", "zone", "free_zone"}

\* C24: a context holds at most one zone Mutex, takes no Mutex while it holds
\* a zone's, and takes the others in the order cache -> SlabInfo cache and
\* heap, each before the zone; no Mutex is held by two contexts; as long as a
\* call is in progress some context can take a step, so no interleaving
\* deadlocks.
C24_ZoneLockIsInnermost ==
    /\ [](\A t \in Contexts :
            /\ Cardinality(ZoneLocksOf(t)) <= 1
            /\ WantsLock(t) => ZoneLocksOf(t) = {}
            /\ \A j, k \in 1..Len(contexts[t].locks) :
                  j < k => LockRank(contexts[t].locks[j])
                              < LockRank(contexts[t].locks[k])
            /\ \A k \in 1..Len(contexts[t].locks) :
                  LockRank(contexts[t].locks[k]) < LockRank("zone"))
    /\ [](\A m \in OuterMutexes : Cardinality(Holders(m)) <= 1)
    /\ [][\A t \in Contexts :
            \/ Len(contexts'[t].locks) > Len(contexts[t].locks)
            \/ \E z \in MemoryZoneEnum : zone_lock'[z] = t /\ zone_lock[z] # t
            => ZoneLocksOf(t) = {}]_vars
    /\ []((pc = "ready" /\ \E t \in Contexts : contexts[t].pc # "idle")
            => \E t \in Contexts : ENABLED ContextStep(t))

\* A context holds a cache's Mutex, the SlabInfo cache's and a zone's while
\* another context, holding another cache's, spins on that zone's
C24_Witness ==
    \E t, u \in Contexts :
        /\ t # u
        /\ contexts[t].locks \in { <<c, "SLAB_INFO_CACHE">> : c \in GenericCaches }
        /\ Len(contexts[u].locks) = 1
        /\ contexts[u].pc = "zone"
        /\ contexts[u].i <= Len(ZonesOf(u))
        /\ zone_lock[ZonesOf(u)[contexts[u].i]] = t

\* C30: every call terminates: a context that is in a call is out of it
\* again later, or the kernel has halted; alloc locks the zone of the entry
\* it is at, goes through the list forwards only, and leaves an entry for
\* the next one when it releases the zone's Mutex without a block.
C30_EveryCallReturns ==
    /\ \A t \in Contexts :
          (contexts[t].pc # "idle") ~> (contexts[t].pc = "idle" \/ pc = "halted")
    /\ [][\A t \in Contexts : contexts[t].op = "alloc" =>
            /\ \A z \in MemoryZoneEnum :
                  (zone_lock'[z] = t /\ zone_lock[z] # t) =>
                      /\ contexts[t].i <= Len(ZonesOf(t))
                      /\ z = ZonesOf(t)[contexts[t].i]
                      /\ contexts'[t].i = contexts[t].i
            /\ \A z \in MemoryZoneEnum :
                  (zone_lock[z] = t /\ zone_lock'[z] # t) =>
                      \/ contexts'[t].i = contexts[t].i + 1
                      \/ contexts'[t].pc = "leave" /\ contexts'[t].ret # 0
            /\ contexts'[t].op = "alloc" => contexts'[t].i >= contexts[t].i
            /\ contexts[t].i <= Len(ZonesOf(t)) + 1]_vars

\* alloc has returned to a context the block it took at the second entry of
\* its zone list, after it passed the first, and the context is out of its
\* call without a Mutex
C30_Witness ==
    \E t \in Contexts :
        /\ contexts[t].pc = "idle"
        /\ contexts[t].locks = <<>>
        /\ ZoneLocksOf(t) = {}
        /\ contexts[t].i = 2
        /\ contexts[t].ret # 0
        /\ \E b \in contexts[t].held : b.addr = contexts[t].ret

=============================================================================
